---- MODULE Spec2Model ----
(***************************************************************************)
(* The Theta explorer endpoints of the staking dashboard:                  *)
(*   /rewards  src/src/app/api/theta/rewards/route.ts  (windowed, 7d/30d)  *)
(*   /earned   src/src/app/api/theta/earned/route.ts   (since T)           *)
(* A request parses and validates its address list, consults the response  *)
(* cache, walks each address's paginated coinbase feed and caches the      *)
(* payload.  One action is one run of handler code between two awaits.     *)
(***************************************************************************)
EXTENDS Integers, Sequences, FiniteSets, TLC

\* JS null / undefined / a missing field / NaN.
Null == 0 - 1

Max2(a, b) == IF a >= b THEN a ELSE b

(***************************************************************************)
(* Program constants.                                                      *)
(***************************************************************************)
RewardsCacheTtlMs == 45000
EarnedCacheTtlMs == 120000
RewardsMaxPages == 25
EarnedMaxPages == 40
sec7d == 7 * 24 * 60 * 60
sec30d == 30 * 24 * 60 * 60

CACHE_TTL_MS(mode) == IF mode = "rewards" THEN RewardsCacheTtlMs ELSE EarnedCacheTtlMs
maxPages(mode) == IF mode = "rewards" THEN RewardsMaxPages ELSE EarnedMaxPages

(***************************************************************************)
(* Bounds of the model.                                                    *)
(***************************************************************************)
\* Records in one explorer page (the code asks for 50).
MaxBody == 2
\* Largest output amount, in units of 5 * 10^11 wei (half a micro-TFUEL).
MaxWei == 2
\* Requests the clients send in one behaviour, and clock steps.
MaxRequests == 2
MaxTicks == 1
\* Days the browser is followed for after the first, and the largest balance.
MaxDays == 2
MaxBalance == 2

(***************************************************************************)
(* Time.  The clock counts the ms since the behaviour began, at second     *)
(* StartSec of the epoch: Date.now() = StartSec * 1000 + clock.  The       *)
(* explorer's records carry no timestamp (Null), the timestamp "0", or a   *)
(* timestamp one second older than the 30-day bound, on the 30-day bound   *)
(* or on the 7-day bound of a request made at clock 0.                     *)
(***************************************************************************)
StartSec == 3 * 1000000
\* Math.floor(Date.now() / 1000)
nowSecAt(ms) == StartSec + ms \div 1000
Told == StartSec - sec30d - 1
T30 == StartSec - sec30d
T7 == StartSec - sec7d
TsVals == {Null, 0, Told, T30, T7}
WeiVals == {Null} \cup (0 .. MaxWei)
Deltas == {RewardsCacheTtlMs, EarnedCacheTtlMs - RewardsCacheTtlMs}

(***************************************************************************)
(* Strings.  A raw query string is a sequence of characters over an        *)
(* alphabet in which "a" and "b" each stand for a canonical lowercase      *)
(* 0x + 40 hex address, "A" for the address "a" written with upper-case    *)
(* hex digits, "z" for a malformed address, and "," and " " for            *)
(* themselves.                                                             *)
(***************************************************************************)
toLowerCaseChar(c) == IF c = "A" THEN "a" ELSE c
toLowerCase(s) == [i \in DOMAIN s |-> toLowerCaseChar(s[i])]

RECURSIVE splitFrom(_, _, _)
splitFrom(s, sep, cur) ==
    IF s = <<>> THEN <<cur>>
    ELSE IF Head(s) = sep THEN <<cur>> \o splitFrom(Tail(s), sep, <<>>)
    ELSE splitFrom(Tail(s), sep, Append(cur, Head(s)))
split(s, sep) == splitFrom(s, sep, <<>>)

RECURSIVE trimStart(_)
trimStart(s) == IF s # <<>> /\ Head(s) = " " THEN trimStart(Tail(s)) ELSE s
RECURSIVE trimEnd(_)
trimEnd(s) ==
    IF s # <<>> /\ s[Len(s)] = " " THEN trimEnd(SubSeq(s, 1, Len(s) - 1)) ELSE s
trim(s) == trimEnd(trimStart(s))

RECURSIVE filterBoolean(_)
filterBoolean(l) ==
    IF l = <<>> THEN <<>>
    ELSE IF Head(l) = <<>> THEN filterBoolean(Tail(l))
    ELSE <<Head(l)>> \o filterBoolean(Tail(l))

mapTrim(l) == [i \in DOMAIN l |-> trim(l[i])]
mapLower(l) == [i \in DOMAIN l |-> toLowerCase(l[i])]

toAddressList(raw) == mapLower(filterBoolean(mapTrim(split(raw, ","))))

\* /^0x[a-f0-9]{40}$/: exactly one canonical lowercase address.
isHexAddress(s) == s \in {<<"a">>, <<"b">>}
everyIsHexAddress(l) == \A i \in DOMAIN l : isHexAddress(l[i])

Addresses == {<<"a">>, <<"b">>}

\* Number(sinceRaw) on the since strings of the model: [finite, val].
NumberOf(s) ==
    CASE s = "" -> [finite |-> TRUE, val |-> 0]
      [] s = "abc" -> [finite |-> FALSE, val |-> Null]
      [] s = "Infinity" -> [finite |-> FALSE, val |-> Null]
      [] s = "-5" -> [finite |-> TRUE, val |-> 0 - 5]
      [] s = "408000" -> [finite |-> TRUE, val |-> 408000]
      [] s = "2395200" -> [finite |-> TRUE, val |-> 2395200]
      [] OTHER -> [finite |-> FALSE, val |-> Null]

sinceIsValid(n) == n.finite /\ n.val > 0

\* weiToNumber(wei, 18) in micro-TFUEL, on an amount given in units of
\* 5 * 10^11 wei: whole * 10^6 + frac6 = floor(wei / 10^12) = floor(u / 2).
\* A text that BigInt rejects makes weiToNumber return null.
Unparseable == 0 - 2
weiToNumber18(u) == IF u = Null \/ u = Unparseable THEN Null ELSE u \div 2

\* weiToNumber(wei, decimals) itself, on small arguments.  A string handed to
\* BigInt is a decimal integer with an optional "-" (kind "int"), the empty
\* string (kind "empty", which BigInt reads as 0n) or a text BigInt rejects with
\* a SyntaxError (kind "text").  The result is [null, micro]: null, or the
\* returned number in units of 10^-6.
weiString(kind, neg, mag) == [kind |-> kind, neg |-> neg, mag |-> mag]
bigIntOf(wei) ==
    [throws |-> wei.kind = "text",
     val |-> IF wei.kind = "int" THEN (IF wei.neg THEN 0 - wei.mag ELSE wei.mag) ELSE 0]

\* BigInt `/` truncates toward zero and `%` has the sign of the dividend.
truncDiv(a, b) == IF a >= 0 THEN a \div b ELSE 0 - ((0 - a) \div b)
truncRem(a, b) == a - b * truncDiv(a, b)

\* `(frac * BigInt(1_000_000)) / denom`
\* Faulty variant: the sixth digit is rounded to nearest.
frac6Rounded(frac, denom) == truncDiv(frac * 1000000 + denom \div 2, denom)
frac6Of(frac, denom) == truncDiv(frac * 1000000, denom)

weiToNumber(wei, decimals) ==
    LET bi == bigIntOf(wei)
        denom == 10 ^ decimals
        whole == truncDiv(bi.val, denom)
        frac == truncRem(bi.val, denom)
        frac6 == frac6Of(frac, denom)
    IN  IF bi.throws THEN [null |-> TRUE, micro |-> 0]
        ELSE [null |-> FALSE, micro |-> whole * 1000000 + frac6]

(***************************************************************************)
(* The explorer.  A transaction record carries its timestamp and the       *)
(* tfuelwei of its first output to the queried address (Null: no such      *)
(* output, or the amount is missing).  A page response is                  *)
(* [body, totalPageNumber, currentPageNumber].                             *)
(***************************************************************************)
Tx == [timestamp : TsVals, tfuelwei : WeiVals]
Bodies == UNION {[1 .. n -> Tx] : n \in 0 .. MaxBody}

tx(ts, wei) == [timestamp |-> ts, tfuelwei |-> wei]
\* The first page of a feed is any body.  The second is one of: a reward
\* inside 7 days, one inside 30 days only, one older than 30 days, an
\* out-of-order page, a page whose last record has no timestamp, an empty
\* page.  From the third page on, a reward inside 7 days or one older than
\* 30 days.
SecondBodies ==
    { <<tx(T7, 2)>>, <<tx(T30, 2)>>, <<tx(Told, 2)>>,
      <<tx(Told, 2), tx(T7, 2)>>, <<tx(T7, 2), tx(Null, 2)>>, <<>> }
LaterBodies == { <<tx(T7, 2)>>, <<tx(Told, 2)>> }
\* First pages of an explorer that is asked for several addresses at once.
FirstBodies ==
    { <<tx(T7, 2)>>, <<tx(T30, 2)>>, <<tx(Told, 2)>>, <<tx(T7, Null)>>, <<tx(T7, 1)>> }
\* The first page of an explorer whose feed does not change.
SteadyBodies == { <<tx(T7, 2)>> }

(***************************************************************************)
(* Reward Windower, /rewards: ingest (lines 163-183).                      *)
(***************************************************************************)
\* Number(tx.timestamp), or null when the field is missing or not a number.
timestampOf(t) == t.timestamp
skipTimestamp(ts) == ts = Null \/ ts = 0
tooOld(ts, oldestNeeded) == ts < oldestNeeded
in7d(ts, nowSec) == ts >= nowSec - sec7d
\* Faulty variant: the 30-day sum uses the 7-day constant, strictly.
in30dNarrow(ts, nowSec) == ts > nowSec - sec7d
in30d(ts, nowSec) == ts >= nowSec - sec30d
\* Faulty variant: an amount of zero is not skipped.
skipAmountOnlyNull(amt) == amt = Null
skipAmount(amt) == amt = Null \/ amt <= 0
newerThan(ts, lastRewardAt) == lastRewardAt = Null \/ ts > lastRewardAt

ingestTx(w, t, nowSec) ==
    LET ts == timestampOf(t)
        amt == weiToNumber18(t.tfuelwei)
    IN  IF skipTimestamp(ts) THEN w
        ELSE IF tooOld(ts, nowSec - sec30d) THEN w
        ELSE IF t.tfuelwei = Null THEN w
        ELSE IF skipAmount(amt) THEN w
        ELSE [w EXCEPT
                !.lastRewardAt = IF newerThan(ts, @) THEN ts ELSE @,
                !.rewards7d = IF in7d(ts, nowSec) THEN @ + amt ELSE @,
                !.rewards30d = IF in30d(ts, nowSec) THEN @ + amt ELSE @]

RECURSIVE ingest(_, _, _)
ingest(w, list, nowSec) ==
    IF list = <<>> THEN w
    ELSE ingest(ingestTx(w, Head(list), nowSec), Tail(list), nowSec)

\* (body).at(-1)?.timestamp as a number, null when absent or not finite.
oldestTimestamp(body) == IF body = <<>> THEN Null ELSE body[Len(body)].timestamp

(***************************************************************************)
(* Paginated Transaction Walker, /rewards (lines 185-214).                 *)
(***************************************************************************)
\* Faulty variant: the loop runs one page past the cap.
withinPageCapPlusOne(page, cap) == page <= cap + 1
withinPageCap(page, cap) == page <= cap
\* page += 1 (rewards line 213), page++ (earned line 113)
\* Faulty variant: the loop skips a page.
nextPageSkips(page) == page + 2
nextPage(page) == page + 1
\* Faulty variant: the break compares against the wrong bound.
windowCoveredTwice(oldestTsSeen, oldestNeeded) ==
    oldestTsSeen # Null /\ oldestTsSeen < oldestNeeded - sec30d
windowCovered(oldestTsSeen, oldestNeeded) ==
    oldestTsSeen # Null /\ oldestTsSeen < oldestNeeded
bodyIsEmpty(body) == Len(body) = 0
\* Faulty variant: the last page is taken to be the one before it.
isLastPageEarly(totalPages, currentPage) ==
    totalPages # Null /\ currentPage + 1 >= totalPages
isLastPage(totalPages, currentPage) ==
    totalPages # Null /\ currentPage >= totalPages
\* pageRes.currentPageNumber ?? page
currentPageOf(rsp, page) ==
    IF rsp.currentPageNumber = Null THEN page ELSE rsp.currentPageNumber

\* The head of `while (page <= maxPages)` with its first statement: either
\* the next page is requested or the loop is left.
rewardsLoopHead(w, nowSec) ==
    IF withinPageCap(w.page, RewardsMaxPages)
       /\ ~windowCovered(w.oldestTsSeen, nowSec - sec30d)
    THEN [w EXCEPT !.pc = "await"]
    ELSE [w EXCEPT !.pc = "done"]

\* `acct.body?.balance?.tfuelwei ? weiToNumber(..., 18) : null`
tfuelBalanceOf(balance) ==
    IF balance = Null THEN Null ELSE weiToNumber18(balance)

\* One entry of stake.body.sourceRecords: withdrawn is "false", "true" or
\* "missing"; amount is Null (missing or ""), Unparseable or a number of units.
stake(withdrawn, amount) == [withdrawn |-> withdrawn, amount |-> amount]

\* r.withdrawn === false
\* Faulty variant: !r.withdrawn, which a record without the field passes.
notWithdrawnLoose(r) == r.withdrawn # "true"
notWithdrawn(r) == r.withdrawn = "false"
\* r.amount ? weiToNumber(r.amount, 18) : null
stakeAmountOf(r) == IF r.amount = Null THEN Null ELSE weiToNumber18(r.amount)

\* filter(withdrawn === false), map(weiToNumber), filter(v != null), reduce(+).
RECURSIVE stakedThetaOf(_)
stakedThetaOf(records) ==
    IF records = <<>> THEN 0
    ELSE (IF notWithdrawn(Head(records)) /\ stakeAmountOf(Head(records)) # Null
          THEN stakeAmountOf(Head(records)) ELSE 0)
         + stakedThetaOf(Tail(records))

\* After Promise.all([getAccount, getStake, getCoinbaseTxs]): lines 149-195.
rewardsFirstPage(w, rsp, nowSec) ==
    LET w0 == [w EXCEPT !.stake = rsp.sourceRecords,
                        !.tfuelBalance = tfuelBalanceOf(rsp.balance),
                        !.stakedTheta = stakedThetaOf(rsp.sourceRecords)]
        w1 == ingest(w0, rsp.body, nowSec)
        w2 == [w1 EXCEPT !.oldestTsSeen = oldestTimestamp(rsp.body), !.page = 2]
    IN  rewardsLoopHead(w2, nowSec)

\* After await getCoinbaseTxPage(address, page, pageLimit): lines 200-213.
rewardsLaterPage(w, rsp, nowSec) ==
    IF bodyIsEmpty(rsp.body) THEN [w EXCEPT !.pc = "done"]
    ELSE
      LET w1 == ingest(w, rsp.body, nowSec)
          ts == oldestTimestamp(rsp.body)
          w2 == [w1 EXCEPT !.oldestTsSeen = IF ts # Null THEN ts ELSE @]
      IN  IF isLastPage(rsp.totalPageNumber, currentPageOf(rsp, w.page))
          THEN [w2 EXCEPT !.pc = "done"]
          ELSE rewardsLoopHead([w2 EXCEPT !.page = nextPage(@)], nowSec)

rewardsOnPage(w, rsp, nowSec) ==
    IF w.page = 1 THEN rewardsFirstPage(w, rsp, nowSec)
    ELSE rewardsLaterPage(w, rsp, nowSec)

(***************************************************************************)
(* /earned: the page loop (lines 113-147).                                 *)
(***************************************************************************)
beforeSince(ts, sinceSec) == ts < sinceSec
\* Faulty variant: the flag is never acted on.
stopAfterPageNever(reachedBeforeSince) == FALSE
stopAfterPage(reachedBeforeSince) == reachedBeforeSince

\* One iteration of `for (const tx of body)`: lines 122-140.
earnedTx(w, t, sinceSec) ==
    LET ts == timestampOf(t)
        amt == weiToNumber18(t.tfuelwei)
    IN  IF skipTimestamp(ts) THEN w
        ELSE IF beforeSince(ts, sinceSec) THEN [w EXCEPT !.reachedBeforeSince = TRUE]
        ELSE IF t.tfuelwei = Null THEN w
        ELSE IF skipAmount(amt) THEN w
        ELSE [w EXCEPT
                !.total = @ + amt,
                !.lastRewardAt = IF newerThan(ts, @) THEN ts ELSE @]

RECURSIVE earnedScan(_, _, _)
earnedScan(w, list, sinceSec) ==
    IF list = <<>> THEN w
    ELSE earnedScan(earnedTx(w, Head(list), sinceSec), Tail(list), sinceSec)

\* `page <= maxPages; pagesFetched++; await getCoinbasePage(...)`.
\* Faulty variant: the page is requested without being counted.
earnedLoopHeadUncounted(w) ==
    IF withinPageCap(w.page, EarnedMaxPages) THEN [w EXCEPT !.pc = "await"]
    ELSE [w EXCEPT !.pc = "done"]
earnedLoopHead(w) ==
    IF withinPageCap(w.page, EarnedMaxPages)
    THEN [w EXCEPT !.pagesFetched = @ + 1, !.pc = "await"]
    ELSE [w EXCEPT !.pc = "done"]

\* After await getCoinbasePage(address, page, limit): lines 116-146, page++.
earnedOnPage(w, rsp, sinceSec) ==
    IF bodyIsEmpty(rsp.body) THEN [w EXCEPT !.pc = "done"]
    ELSE
      LET w1 == earnedScan([w EXCEPT !.reachedBeforeSince = FALSE], rsp.body, sinceSec)
      IN  IF stopAfterPage(w1.reachedBeforeSince) THEN [w1 EXCEPT !.pc = "done"]
          ELSE IF isLastPage(rsp.totalPageNumber, currentPageOf(rsp, w.page))
          THEN [w1 EXCEPT !.pc = "done"]
          ELSE earnedLoopHead([w1 EXCEPT !.page = nextPage(@)])

\* The state of one address's async callback.
newWalk(address) ==
    [address |-> address, pc |-> "start", page |-> 1,
     rewards7d |-> 0, rewards30d |-> 0, total |-> 0,
     lastRewardAt |-> Null, oldestTsSeen |-> Null,
     reachedBeforeSince |-> FALSE, pagesFetched |-> 0,
     stake |-> <<>>, tfuelBalance |-> Null, stakedTheta |-> 0]

\* The callback up to its first await.
startWalk(mode, address) ==
    IF mode = "rewards" THEN [newWalk(address) EXCEPT !.pc = "await"]
    ELSE earnedLoopHead(newWalk(address))

onPage(mode, w, rsp, nowSec, sinceSec) ==
    IF mode = "rewards" THEN rewardsOnPage(w, rsp, nowSec)
    ELSE earnedOnPage(w, rsp, sinceSec)

\* `x || null`
\* Faulty variant: the sum is returned as it is.
orNullKeepsZero(x) == x
orNull(x) == IF x = 0 THEN Null ELSE x

resultOf(mode, w) ==
    IF mode = "rewards"
    THEN [address |-> w.address, rewards7d |-> orNull(w.rewards7d),
          rewards30d |-> orNull(w.rewards30d), earned |-> Null,
          lastRewardAt |-> w.lastRewardAt, pagesFetched |-> Null,
          tfuelBalance |-> w.tfuelBalance, stakedTheta |-> orNull(w.stakedTheta)]
    ELSE [address |-> w.address, rewards7d |-> Null, rewards30d |-> Null,
          earned |-> orNull(w.total),
          lastRewardAt |-> w.lastRewardAt, pagesFetched |-> w.pagesFetched,
          tfuelBalance |-> Null, stakedTheta |-> Null]

(***************************************************************************)
(* The tracker in the browser (the client source, lines 1072-1204,         *)
(* 1607-1627 and 2547-2881).  A day key is the number of the local day:    *)
(* dayKeyLocal formats year-month-day with padded fields, so the order of  *)
(* the strings that Object.keys(...).sort() produces is the order of the   *)
(* days.  A balance is a number of TFUEL units or Null.                    *)
(***************************************************************************)
msPerDay == 24 * 60 * 60 * 1000
dayKeyLocal(ms) == ms \div msPerDay

\* The window of the daily charts: slice(-30).
DisplayDays == 30

\* What the StakingTracker holds in `data`: null ("none"), a payload of
\* /api/theta/rewards ("snapshot") or the JSON body of an error response
\* ("error": an object without results).
row(a, balance) == [address |-> a, tfuelBalance |-> balance]
NoData == [kind |-> "none", results |-> <<>>]
snapshot(results) == [kind |-> "snapshot", results |-> results]
errorBody == [kind |-> "error", results |-> <<>>]

\* TrackingState | null.
NoTracking == [running |-> FALSE, startedAt |-> Null, baselines |-> <<>>, series |-> <<>>]

\* An item of localStorage under "thetaRewardsTracking.v1": absent, or the
\* JSON text of a TrackingState, kept as the value JSON.parse gives back.
NoItem == [present |-> FALSE, startedAt |-> Null, baselines |-> <<>>, series |-> <<>>]
stringify(t) ==
    [present |-> TRUE, startedAt |-> t.startedAt, baselines |-> t.baselines,
     series |-> t.series]
\* getItem, JSON.parse, and the checks on the parsed object.
parseTracking(raw) ==
    IF ~raw.present THEN NoTracking
    ELSE IF raw.startedAt = Null THEN NoTracking
    ELSE [running |-> TRUE, startedAt |-> raw.startedAt, baselines |-> raw.baselines,
          series |-> raw.series]
\* The Dashboard's loadTracking: the parsed state, null when there is none.
loadTracking(raw) == parseTracking(raw)

\* useEffect(..., [tracking]) of the StakingTracker: removeItem when tracking
\* is null, setItem(JSON.stringify(tracking)) otherwise.
\* Faulty variant: a null state leaves the stored item in place.
persistKeepsItem(item, tracking) == IF ~tracking.running THEN item ELSE stringify(tracking)
persist(item, tracking) == IF ~tracking.running THEN NoItem ELSE stringify(tracking)

\* readNumberFromLocalStorage / writeNumberToLocalStorage on the item
\* "tfuelLifetimeStartedAt.v1": absent (Null) or the decimal text of a number.
NoNumber == [present |-> FALSE, text |-> 0]
readNumberFromLocalStorage(item) == IF ~item.present THEN Null ELSE item.text
writeNumberToLocalStorage(item, value) ==
    IF value = Null THEN NoNumber ELSE [present |-> TRUE, text |-> value]

addressesOf(results) == {results[i].address : i \in DOMAIN results}
lastRowOf(results, a) ==
    results[CHOOSE i \in DOMAIN results :
                /\ results[i].address = a
                /\ \A j \in DOMAIN results : results[j].address = a => j <= i]

\* for (const r of data.results) baselines[r.address] = r.tfuelBalance
\* Faulty variant: an address without a balance gets no baseline entry.
baselinesOfKnown(results) ==
    [a \in {b \in addressesOf(results) : lastRowOf(results, b).tfuelBalance # Null}
        |-> lastRowOf(results, a).tfuelBalance]
baselinesOf(results) ==
    [a \in addressesOf(results) |-> lastRowOf(results, a).tfuelBalance]
\* for (const r of data.results) series[r.address] = { [k]: 0 }
seedSeries(results, k) == [a \in addressesOf(results) |-> [d \in {k} |-> 0]]

\* The state the start button builds (lines 2866-2879).
startTracking(data, now) ==
    [running |-> TRUE, startedAt |-> now, baselines |-> baselinesOf(data.results),
     series |-> seedSeries(data.results, dayKeyLocal(now))]

\* Math.max(0, r.tfuelBalance - base)
\* Faulty variant: the difference is not floored.
earnedSigned(current, base) == current - base
earnedOf(current, base) == Max2(0, current - base)

baselineAt(baselines, a) == IF a \in DOMAIN baselines THEN baselines[a] ELSE Null

\* `{ ...(nextSeries[r.address] ?? {}) }` with `walletSeries[k] = earned`.
\* Faulty variant: the series of the address is started afresh.
walletSeriesFresh(old, k, earned) == [d \in {k} |-> earned]
walletSeriesOf(old, k, earned) ==
    [d \in DOMAIN old \cup {k} |-> IF d = k THEN earned ELSE old[d]]

\* The updater of setTracking in load(), for a running state (lines 2689-2702).
RECURSIVE refreshSeries(_, _, _, _)
refreshSeries(series, baselines, results, k) ==
    IF results = <<>> THEN series
    ELSE LET r == Head(results)
             base == baselineAt(baselines, r.address)
         IN  IF base = Null \/ r.tfuelBalance = Null
             THEN refreshSeries(series, baselines, Tail(results), k)
             ELSE LET old == IF r.address \in DOMAIN series THEN series[r.address] ELSE <<>>
                      walletSeries ==
                          walletSeriesOf(old, k, earnedOf(r.tfuelBalance, base))
                      nextSeries ==
                          [a \in DOMAIN series \cup {r.address} |->
                              IF a = r.address THEN walletSeries ELSE series[a]]
                  IN  refreshSeries(nextSeries, baselines, Tail(results), k)

\* Object.keys(s).sort()
RECURSIVE sortKeys(_)
sortKeys(S) ==
    IF S = {} THEN <<>>
    ELSE LET m == CHOOSE x \in S : \A y \in S : x <= y
         IN  <<m>> \o sortKeys(S \ {m})
\* array.slice(-n)
sliceLast(s, n) == IF Len(s) <= n THEN s ELSE SubSeq(s, Len(s) - n + 1, Len(s))

\* The loop of dailyDeltas over every key of the series s (lines 2729-2734).
\* Faulty variant: a fall of the value gives a negative delta.
allDeltasSigned(s) ==
    LET keys == sortKeys(DOMAIN s)
    IN  [i \in DOMAIN keys |->
            [day |-> keys[i],
             delta |-> s[keys[i]] - (IF i = 1 THEN 0 ELSE s[keys[i - 1]])]]
allDeltas(s) ==
    LET keys == sortKeys(DOMAIN s)
    IN  [i \in DOMAIN keys |->
            [day |-> keys[i],
             delta |-> Max2(0, s[keys[i]] - (IF i = 1 THEN 0 ELSE s[keys[i - 1]]))]]
\* dailyDeltas(address) on that address's series s (lines 2727-2735).
\* Faulty variant: the window is cut before the deltas are taken.
dailyDeltasSliceFirst(s) ==
    LET keys == sliceLast(sortKeys(DOMAIN s), DisplayDays)
    IN  [i \in DOMAIN keys |->
            [day |-> keys[i],
             delta |-> Max2(0, s[keys[i]] - (IF i = 1 THEN 0 ELSE s[keys[i - 1]]))]]
dailyDeltas(s) == sliceLast(allDeltas(s), DisplayDays)

\* totalEarnedAll (lines 2738-2746): the earned value the tracker displays.
RECURSIVE totalEarnedAll(_, _)
totalEarnedAll(results, tracking) ==
    IF results = <<>> THEN 0
    ELSE LET r == Head(results)
             base == baselineAt(tracking.baselines, r.address)
         IN  (IF ~tracking.running \/ r.tfuelBalance = Null \/ base = Null THEN 0
              ELSE earnedOf(r.tfuelBalance, base))
             + totalEarnedAll(Tail(results), tracking)

\* The earnings alert of the StakingTracker (lines 2581-2630, 2748-2798).  The
\* text of the threshold field is the number it reads as, 0 standing for every
\* text that reads as a number <= 0, or Unparseable.
DefaultThresholdUsd == 200
\* useState(false), useState("200"), useState(true), useState(null); `fired`
\* records that the effect raised the alert in the handler that ran last.
NoAlert ==
    [enabled |-> FALSE, threshold |-> DefaultThresholdUsd, armed |-> TRUE,
     banner |-> FALSE, fired |-> FALSE]
\* The item "stakingUsdAlert.v1" of localStorage.
NoAlertItem == [present |-> FALSE, enabled |-> FALSE, thresholdUsd |-> Null, armed |-> FALSE]
\* JSON.stringify({enabled, thresholdUsd: finite ? Number(text) : null, armed})
persistAlert(a) ==
    [present |-> TRUE, enabled |-> a.enabled,
     thresholdUsd |-> IF a.threshold = Unparseable THEN Null ELSE a.threshold,
     armed |-> a.armed]
\* The mount effect: the fields of the stored item over the initial state.
loadAlert(item) ==
    IF ~item.present THEN NoAlert
    ELSE [NoAlert EXCEPT !.enabled = item.enabled,
                         !.threshold = IF item.thresholdUsd # Null THEN item.thresholdUsd ELSE @,
                         !.armed = item.armed]
\* tfuelUsd == null ? null : totalEarnedAll * tfuelUsd
totalEarnedUsd(tfuelUsd, earnedAll) == IF tfuelUsd = Null THEN Null ELSE earnedAll * tfuelUsd
\* Number(text), null unless finite and > 0.
alertThresholdUsdNum(text) == IF text = Unparseable \/ text <= 0 THEN Null ELSE text
\* `totalEarnedUsd < alertThresholdUsdNum`
\* Faulty variant: an amount equal to the threshold is below it.
belowThresholdInclusive(usd, thr) == usd <= thr
belowThreshold(usd, thr) == usd < thr

\* The alert effect (lines 2757-2777) on alert state a, with `tracking != null`
\* and totalEarnedUsd as rendered.
alertEffect(a, running, usd) ==
    LET thr == alertThresholdUsdNum(a.threshold)
    IN  IF ~a.enabled THEN a
        ELSE IF ~a.armed
        THEN (IF thr # Null /\ usd # Null /\ belowThreshold(usd, thr)
              THEN [a EXCEPT !.armed = TRUE] ELSE a)
        ELSE IF thr = Null \/ usd = Null THEN a
        ELSE IF belowThreshold(usd, thr) THEN a
        ELSE IF ~running THEN a
        ELSE [a EXCEPT !.banner = TRUE, !.armed = FALSE, !.fired = TRUE]

\* The alert after a handler left the component of tab t as c and its alert
\* state as a: the component re-renders, the effect runs and the state is
\* stored.  A tab that no longer shows the tracker has lost the state.
afterRender(al, t, c, a) ==
    IF c.view # "staking" THEN [al EXCEPT !.of[t] = NoAlert]
    ELSE LET usd == totalEarnedUsd(al.usd[t], totalEarnedAll(c.data.results, c.tracking))
             a1 == alertEffect([a EXCEPT !.fired = FALSE], c.tracking.running, usd)
         IN  [al EXCEPT !.of[t] = a1, !.item = persistAlert(a1)]

\* series[k] ?? 0
valueAt(s, k) == IF k \in DOMAIN s THEN s[k] ELSE 0
allDays(series) == UNION {DOMAIN series[a] : a \in DOMAIN series}

\* One bar of the Dashboard's combined chart (lines 1614-1624): keys is the
\* window of the days of all addresses, i the position of the day in it.
RECURSIVE chartTotal(_, _, _, _)
chartTotal(series, todo, keys, i) ==
    IF todo = {} THEN 0
    ELSE LET a == CHOOSE x \in todo : TRUE
             cur == valueAt(series[a], keys[i])
             prev == IF i > 1 THEN valueAt(series[a], keys[i - 1]) ELSE 0
         IN  Max2(0, cur - prev) + chartTotal(series, todo \ {a}, keys, i)
\* chart (lines 1607-1627): the days shown and the value of each.
chart(series) ==
    LET keys == sliceLast(sortKeys(allDays(series)), DisplayDays)
    IN  [keys |-> keys,
         values |-> [i \in DOMAIN keys |-> chartTotal(series, DOMAIN series, keys, i)]]

(***************************************************************************)
(* The price route and the history route.  A symbol parameter is its       *)
(* letters, lower-cased ("" when the parameter is absent or empty), with   *)
(* whether it was written with upper-case letters and whether it was       *)
(* written with white space around it.  A price is a number of USD.        *)
(***************************************************************************)
sym(text, upper, padded) == [text |-> text, upper |-> upper, padded |-> padded]
trimSymbol(s) == [s EXCEPT !.padded = FALSE]
lowerSymbol(s) == [s EXCEPT !.upper = FALSE]
\* `!symbol`: the empty string.
isEmptySymbol(s) == s.text = "" /\ ~s.padded

\* toCoinGeckoId(symbol) of the price route: trim, lower-case, look up.
toCoinGeckoId(s) ==
    IF lowerSymbol(trimSymbol(s)).text = "tfuel" THEN "theta-fuel"
    ELSE IF lowerSymbol(trimSymbol(s)).text = "theta" THEN "theta-token"
    ELSE ""

\* What fetchEstimated returns for the answer of SimpleSwap: a status that is
\* not ok ("http"), a JSON number, an object with a numeric estimated_amount,
\* or any other JSON ("other").
estimatedQuote(ans) ==
    IF ans.kind \in {"number", "object"} THEN [price |-> ans.value, error |-> ""]
    ELSE IF ans.kind = "http" THEN [price |-> Null, error |-> "SimpleSwap HTTP"]
    ELSE [price |-> Null, error |-> "Unexpected SimpleSwap response"]
\* fetchEstimated without SIMPLESWAP_API_KEY.
missingKeyQuote == [price |-> Null, error |-> "Missing SIMPLESWAP_API_KEY"]
\* What fetchCoinGeckoSpot returns for the answer of CoinGecko: a status that
\* is not ok, a JSON without a row for the id ("other"), or a row whose usd
\* and usdc are numbers or not (Null).
spotOf(ans) ==
    IF ans.kind = "row"
    THEN [usdc |-> IF ans.usdc # Null THEN ans.usdc ELSE ans.usd, usd |-> ans.usd]
    ELSE [usdc |-> Null, usd |-> Null]

\* `source` after the fallback was consulted.
sourceAfterFallback(usdc, usd) ==
    IF usdc # Null \/ usd # Null THEN "coingecko" ELSE "simpleswap"
BadGateway == 502
\* `usdc == null && usd == null ? 502 : 200`
priceStatus(usdc, usd) == IF usdc = Null /\ usd = Null THEN BadGateway ELSE 200

\* The handler of the price route: where it is, its symbol, the fetches it
\* made, whether SIMPLESWAP_API_KEY is set, the price fetchEstimated returned, whether it called
\* fetchCoinGeckoSpot, and its response (status 500 when it threw).
idlePrice ==
    [pc |-> "idle", raw |-> sym("", FALSE, FALSE),
     symbol |-> sym("", FALSE, FALSE), calls |-> <<>>, error |-> "",
     hasKey |-> FALSE, quoted |-> Null, fallback |-> FALSE,
     status |-> Null, usdc |-> Null, usd |-> Null, source |-> "", threw |-> FALSE]
\* The handler returns a response with a price, or 502 with the error of the
\* swap estimate.
priceResponse(p, usdc, usd, source) ==
    [p EXCEPT !.pc = "done", !.status = priceStatus(usdc, usd),
              !.usdc = usdc, !.usd = usd, !.source = source,
              !.error = IF priceStatus(usdc, usd) = 200 THEN "" ELSE @]
\* The handler after `await fetchEstimated(...)` returned `quoted`, up to the
\* next fetch or the response.
afterEstimated(p, usdcQuote) ==
    IF usdcQuote.price # Null
    THEN priceResponse([p EXCEPT !.quoted = usdcQuote.price],
                       usdcQuote.price, usdcQuote.price, "simpleswap")
    ELSE IF toCoinGeckoId(p.symbol) = ""
    THEN priceResponse([p EXCEPT !.fallback = TRUE, !.error = usdcQuote.error],
                       Null, Null, sourceAfterFallback(Null, Null))
    ELSE [p EXCEPT !.pc = "spot", !.fallback = TRUE, !.error = usdcQuote.error,
                   !.calls = Append(@, "coingecko")]

(***************************************************************************)
(* The history route.  The days parameter is absent, empty, not a number   *)
(* ("abc"), an infinity ("Infinity"), or a number given in tenths.         *)
(***************************************************************************)
DefaultDays == 30
MaxHistoryDays == 90
Min2(a, b) == IF a < b THEN a ELSE b
\* Math.round of a number of tenths: the nearest integer, halves upwards.
roundTenths(t) == (t + 5) \div 10
\* Faulty variant: no lower clamp.
clampDaysNoFloor(raw) ==
    IF raw.kind \in {"absent", "empty", "nan", "inf"} THEN DefaultDays
    ELSE Min2(MaxHistoryDays, roundTenths(raw.tenths))
clampDays(raw) ==
    IF raw.kind \in {"absent", "empty", "nan", "inf"} THEN DefaultDays
    ELSE Min2(MaxHistoryDays, Max2(1, roundTenths(raw.tenths)))
\* symbolToCoinGeckoId(symbol) of the history route: lower-case, look up; the
\* symbol is not trimmed.
symbolToCoinGeckoId(s) ==
    IF s.padded THEN ""
    ELSE IF lowerSymbol(s).text = "tfuel" THEN "theta-fuel"
    ELSE IF lowerSymbol(s).text = "theta" THEN "theta-token"
    ELSE ""
\* The points of the chart that the response keeps: a point is TRUE when its
\* time and its price are finite numbers.
keptPoints(points) == SelectSeq(points, LAMBDA ok : ok)
\* The handler of the history route: where it is, its symbol, the days
\* parameter and the days used, the fetches it made, what CoinGecko answered,
\* and its response.
idleHistory ==
    [pc |-> "idle", symbol |-> sym("", FALSE, FALSE), raw |-> [kind |-> "absent", tenths |-> 0],
     days |-> DefaultDays, calls |-> 0, answer |-> "", status |-> Null,
     error |-> "", prices |-> <<>>]

(***************************************************************************)
(* State.                                                                  *)
(***************************************************************************)
VARIABLES
    clock,      \* Date.now(), in ms
    cache,      \* responseCache of each route: mode -> set of [key, ts, payload]
    req,        \* the requests in flight: slot -> the handler's locals
    last,       \* the request answered most recently, with its response
    walk,       \* slot -> one callback state per address of the request
    probe,      \* slot -> per address, what an observer of the walk has seen
    feedPages,  \* the explorer: address -> number of pages of its feed
    client,     \* the inputs the clients send: [modes, raws, sinces]
    upstream,   \* the explorer: [anyBody, steady, balances, stakes, failing]
    conv,       \* one call of weiToNumber: its arguments and what it returned
    budget,     \* requests the clients still send
    ticksLeft,  \* clock steps still to come
    wall,       \* Date.now() in the browser, in ms since a local midnight
    storage,    \* localStorage: [tracking, lifetime]
    tabs,       \* browser tab -> the state of the component it shows
    browser,    \* the browser's surroundings: [tabs, balances, errors, days]
    event,      \* the handler of the browser that ran last: [tab, kind]
    calc,       \* one call of dailyDeltas: its argument and what it returned
    alert,      \* the earnings alert: [of, usd, item], of and usd by browser tab
    price,      \* the price route: the handler's locals, its calls, its response
    history     \* the history route: the handler's locals, its calls, its response

serverVars ==
    <<clock, cache, req, last, walk, probe, feedPages, client, upstream, conv,
      budget, ticksLeft>>
browserVars == <<wall, storage, tabs, browser, event, calc, alert>>
vars ==
    <<clock, cache, req, last, walk, probe, feedPages, client, upstream, conv,
      budget, ticksLeft, wall, storage, tabs, browser, event, calc, alert,
      price, history>>
quoteVars == <<price, history>>

Modes == {"rewards", "earned"}
Slots == {1, 2}

NoPayload == [sinceSec |-> Null, addresses |-> <<>>, results |-> <<>>, fetchedAt |-> Null]
idleReq ==
    [pc |-> "idle", mode |-> "rewards", raw |-> <<>>, sinceRaw |-> "",
     addresses |-> <<>>, nowSec |-> Null, sinceSec |-> Null,
     status |-> Null, error |-> "", payload |-> NoPayload, cached |-> FALSE,
     failed |-> FALSE, firstDone |-> Null]

(***************************************************************************)
(* Response Memoizer.                                                      *)
(***************************************************************************)
\* `addresses:${addressesRaw.toLowerCase()}` and, for /earned, `|since:${sinceRaw}`.
\* Faulty variant: the /earned key leaves the since parameter out.
cacheKeyNoSince(mode, raw, sinceRaw) == <<toLowerCase(raw), "">>
cacheKey(mode, raw, sinceRaw) ==
    IF mode = "rewards" THEN <<toLowerCase(raw), "">>
    ELSE <<toLowerCase(raw), sinceRaw>>

cacheGet(c, key) == {e \in c : e.key = key}
\* Faulty variant: an entry is still served when it is exactly TTL old.
isFreshInclusive(now, ts, ttl) == now - ts <= ttl
isFresh(now, ts, ttl) == now - ts < ttl
\* Faulty variant: the comparison is the wrong way round.
cacheHitStale(c, key, now, ttl) == \E e \in cacheGet(c, key) : ~isFresh(now, e.ts, ttl)
cacheHit(c, key, now, ttl) == \E e \in cacheGet(c, key) : isFresh(now, e.ts, ttl)
\* Faulty variant: an entry already under the key is kept.
cacheSetKeepsFirst(c, key, now, payload) ==
    IF cacheGet(c, key) # {} THEN c
    ELSE c \cup {[key |-> key, ts |-> now, payload |-> payload]}
cacheSet(c, key, now, payload) ==
    {e \in c : e.key # key} \cup {[key |-> key, ts |-> now, payload |-> payload]}

(***************************************************************************)
(* Validation (rewards lines 118-131, earned lines 81-102).                *)
(***************************************************************************)
validationError(mode, addresses, since) ==
    IF Len(addresses) = 0 THEN "Missing addresses"
    ELSE IF ~everyIsHexAddress(addresses) THEN "Invalid address"
    ELSE IF mode = "earned" /\ ~sinceIsValid(since) THEN "Invalid since"
    ELSE ""

\* addresses.map(async (address) => ...): every callback runs to its first await.
\* Faulty variant: the fan-out starts before the validation result is looked at.
startWalksAnyway(mode, addresses, err) ==
    [i \in DOMAIN addresses |-> startWalk(mode, addresses[i])]
startWalks(mode, addresses, err) ==
    IF err # "" THEN <<>>
    ELSE [i \in DOMAIN addresses |-> startWalk(mode, addresses[i])]

(***************************************************************************)
(* What an observer of one address's walk records.                         *)
(***************************************************************************)
hasTs(t) == t.timestamp # Null
validTs(t) == hasTs(t) /\ t.timestamp # 0
qualifies(t, lower) ==
    /\ validTs(t)
    /\ t.timestamp >= lower
    /\ t.tfuelwei # Null
    /\ weiToNumber18(t.tfuelwei) > 0

RECURSIVE QualSum(_, _)
QualSum(body, lower) ==
    IF body = <<>> THEN 0
    ELSE (IF qualifies(Head(body), lower) THEN weiToNumber18(Head(body).tfuelwei) ELSE 0)
         + QualSum(Tail(body), lower)

\* The page crosses the boundary: windowed mode looks at the page's last
\* record, since mode at every record.
crossed(mode, body, lower) ==
    IF mode = "rewards"
    THEN body # <<>> /\ hasTs(body[Len(body)]) /\ body[Len(body)].timestamp < lower
    ELSE \E i \in DOMAIN body : hasTs(body[i]) /\ body[i].timestamp < lower
\* The same, over the records whose timestamp is not "0".
crossedNonZero(body, lower) ==
    \E i \in DOMAIN body : validTs(body[i]) /\ body[i].timestamp < lower

\* A record with a timestamp and a positive amount for the address, and a
\* page without the records that are not.
wellFormed(t) ==
    validTs(t) /\ t.tfuelwei # Null /\ weiToNumber18(t.tfuelwei) > 0
clean(body) == SelectSeq(body, wellFormed)
accumulators(w) == <<w.rewards7d, w.rewards30d, w.total, w.lastRewardAt>>

\* The newest timestamp among the records that count, and `bound`.
RECURSIVE QualLast(_, _, _)
QualLast(body, lower, bound) ==
    IF body = <<>> THEN bound
    ELSE QualLast(Tail(body), lower,
                  IF qualifies(Head(body), lower) /\ Head(body).timestamp > bound
                  THEN Head(body).timestamp ELSE bound)

RECURSIVE newestFirst(_, _)
newestFirst(body, bound) ==
    IF body = <<>> THEN TRUE
    ELSE IF ~hasTs(Head(body)) THEN newestFirst(Tail(body), bound)
    ELSE (bound = Null \/ Head(body).timestamp <= bound)
         /\ newestFirst(Tail(body), Head(body).timestamp)

RECURSIVE lastValidTs(_, _)
lastValidTs(body, bound) ==
    IF body = <<>> THEN bound
    ELSE lastValidTs(Tail(body),
                     IF hasTs(Head(body)) THEN Head(body).timestamp ELSE bound)

newProbe(w) ==
    [requested |-> IF w.pc = "await" THEN <<w.page>> ELSE <<>>,
     pending |-> IF w.pc = "await" THEN {w.page} ELSE {},
     answered |-> 0,
     empty |-> FALSE, repLast |-> FALSE, old |-> FALSE, oldNonZero |-> FALSE,
     stopSeen |-> FALSE, pageQual |-> 0,
     refA |-> 0, refB |-> 0, restA |-> 0, restB |-> 0,
     wf |-> TRUE, minTs |-> Null, revealed |-> 0, late |-> FALSE,
     refLast |-> Null, malformed |-> FALSE, cleanSame |-> TRUE]

\* The page is what a newest-first feed of feedPages[a] pages would hold at p.
pageWellFormed(pr, a, p, rsp) ==
    /\ (p <= feedPages[a]) = (rsp.body # <<>>)
    /\ newestFirst(rsp.body, pr.minTs)

reveal(pr, mode, a, p, rsp, lower) ==
    LET ok == pr.wf /\ pageWellFormed(pr, a, p, rsp)
    IN  [pr EXCEPT
            !.wf = ok,
            !.minTs = IF ok THEN lastValidTs(rsp.body, @) ELSE Null,
            !.revealed = p,
            !.late = @ \/ (p > maxPages(mode)
                           /\ \E i \in DOMAIN rsp.body :
                                 validTs(rsp.body[i]) /\ rsp.body[i].timestamp >= lower)]

observe(pr, mode, w, w2, rsp, lower, lower7) ==
    LET p == w.page
        e == rsp.body = <<>>
        l == rsp.totalPageNumber # Null
             /\ (IF rsp.currentPageNumber = Null THEN p ELSE rsp.currentPageNumber)
                >= rsp.totalPageNumber
        o == crossed(mode, rsp.body, lower)
        pr1 == reveal(pr, mode, w.address, p, rsp, lower)
    IN  [pr1 EXCEPT
            !.requested = IF w2.pc = "await" THEN Append(@, w2.page) ELSE @,
            !.pending = (@ \ {p}) \cup (IF w2.pc = "await" THEN {w2.page} ELSE {}),
            !.answered = @ + 1,
            !.empty = e, !.repLast = l, !.old = o,
            !.oldNonZero = crossedNonZero(rsp.body, lower),
            !.pageQual = QualSum(rsp.body, lower),
            !.stopSeen = @ \/ e \/ l \/ o,
            !.refA = @ + QualSum(rsp.body, lower),
            !.refB = IF mode = "rewards" THEN @ + QualSum(rsp.body, lower7) ELSE @,
            !.refLast = QualLast(rsp.body, lower, @),
            !.malformed = @ \/ \E i \in DOMAIN rsp.body : ~wellFormed(rsp.body[i]),
            !.cleanSame = @ /\ accumulators(w2) = accumulators(
                IF mode = "rewards" THEN ingest(w, clean(rsp.body), lower + sec30d)
                ELSE earnedScan(w, clean(rsp.body), lower))]

audit(pr, mode, a, rsp, lower, lower7) ==
    LET pr1 == reveal(pr, mode, a, pr.revealed + 1, rsp, lower)
    IN  [pr1 EXCEPT
            !.restA = @ + QualSum(rsp.body, lower),
            !.restB = IF mode = "rewards" THEN @ + QualSum(rsp.body, lower7) ELSE @]

(***************************************************************************)
(* The explorer's answer to GET /accounttx/{a}?pageNumber=p.               *)
(***************************************************************************)
BodiesAt(a, p) ==
    IF p > feedPages[a] THEN {<<>>}
    ELSE IF p = 1
    THEN (IF upstream.steady THEN SteadyBodies
          ELSE IF upstream.anyBody THEN Bodies ELSE FirstBodies)
    ELSE IF p = 2 THEN SecondBodies
    ELSE LaterBodies

\* totalPageNumber and currentPageNumber are optional in the response type.
Reports(a, p) ==
    IF upstream.steady
    THEN { [totalPageNumber |-> feedPages[a], currentPageNumber |-> p] }
    ELSE { [totalPageNumber |-> Null, currentPageNumber |-> Null],
           [totalPageNumber |-> feedPages[a], currentPageNumber |-> Null],
           [totalPageNumber |-> feedPages[a], currentPageNumber |-> p] }

Responses(a, p) ==
    { [body |-> b, totalPageNumber |-> n.totalPageNumber,
       currentPageNumber |-> n.currentPageNumber] :
         b \in BodiesAt(a, p), n \in Reports(a, p) }

\* What the awaited fetches of a callback resolve to: for /rewards the first
\* await joins the account, the stake and page 1 of the feed.
Answers(mode, a, p) ==
    { [body |-> rsp.body, totalPageNumber |-> rsp.totalPageNumber,
       currentPageNumber |-> rsp.currentPageNumber,
       balance |-> b, sourceRecords |-> st] :
         rsp \in Responses(a, p),
         b \in (IF mode = "rewards" /\ p = 1 THEN upstream.balances ELSE {Null}),
         st \in (IF mode = "rewards" /\ p = 1 THEN upstream.stakes ELSE {<<>>}) }

lowerBound(q) == IF q.mode = "rewards" THEN q.nowSec - sec30d ELSE q.sinceSec

(***************************************************************************)
(* Actions.                                                                *)
(***************************************************************************)
freeSlot(r) == r \in Slots /\ req[r].pc = "idle"
                /\ \A r2 \in Slots : r2 < r => req[r2].pc = "walking"

\* GET(request) up to its first await or its return.
GET(r, mode, raw, sinceRaw) ==
    /\ budget > 0
    /\ freeSlot(r)
    /\ budget' = budget - 1
    /\ LET key == cacheKey(mode, raw, sinceRaw)
           addresses == toAddressList(raw)
           since == NumberOf(sinceRaw)
           err == validationError(mode, addresses, since)
           q == [idleReq EXCEPT !.mode = mode, !.raw = raw, !.sinceRaw = sinceRaw]
           ws == startWalks(mode, addresses, err)
       IN  IF cacheHit(cache[mode], key, clock, CACHE_TTL_MS(mode))
           THEN /\ \E e \in cacheGet(cache[mode], key) :
                      last' = [q EXCEPT !.pc = "responded", !.status = 200,
                                 !.payload = e.payload, !.cached = TRUE]
                /\ UNCHANGED <<req, walk, probe>>
           ELSE IF err # ""
           THEN /\ last' = [q EXCEPT !.pc = "responded", !.addresses = addresses,
                              !.status = 400, !.error = err]
                /\ walk' = [walk EXCEPT ![r] = ws]
                /\ probe' = [probe EXCEPT ![r] = [i \in DOMAIN ws |-> newProbe(ws[i])]]
                /\ UNCHANGED req
           ELSE /\ req' = [req EXCEPT ![r] = [q EXCEPT !.pc = "walking",
                              !.addresses = addresses, !.nowSec = nowSecAt(clock),
                              !.sinceSec = since.val]]
                /\ walk' = [walk EXCEPT ![r] = ws]
                /\ probe' = [probe EXCEPT ![r] = [i \in DOMAIN ws |-> newProbe(ws[i])]]
                /\ UNCHANGED last
    /\ UNCHANGED browserVars
    /\ UNCHANGED quoteVars
    /\ UNCHANGED <<clock, cache, feedPages, client, upstream, conv, ticksLeft>>

\* A page response arrives: the callback runs to its next await or its return.
Respond(r, i) ==
    /\ req[r].pc = "walking"
    /\ walk[r][i].pc = "await"
    /\ LET q == req[r]
           w == walk[r][i]
       IN  \E rsp \in Answers(q.mode, w.address, w.page) :
              LET w2 == onPage(q.mode, w, rsp, q.nowSec, q.sinceSec)
              IN  /\ walk' = [walk EXCEPT ![r][i] = w2]
                  /\ probe' = [probe EXCEPT ![r][i] =
                        observe(@, q.mode, w, w2, rsp, lowerBound(q), q.nowSec - sec7d)]
                  /\ req' = [req EXCEPT ![r].firstDone =
                        IF @ = Null /\ w2.pc = "done" THEN i ELSE @]
    /\ UNCHANGED browserVars
    /\ UNCHANGED quoteVars
    /\ UNCHANGED <<clock, cache, last, feedPages, client, upstream, conv, budget, ticksLeft>>

allDone(r) == \A i \in DOMAIN walk[r] : walk[r][i].pc = "done"

\* The state of `Promise.all(addresses.map(async ...))`.
\* Faulty variant: the fan-out waits for every callback and never rejects.
outcomeAllSettled(ws) ==
    IF \A i \in DOMAIN ws : ws[i].pc \in {"done", "thrown"} THEN "fulfilled"
    ELSE "pending"
outcome(ws) ==
    IF \E i \in DOMAIN ws : ws[i].pc = "thrown" THEN "rejected"
    ELSE IF \A i \in DOMAIN ws : ws[i].pc = "done" THEN "fulfilled"
    ELSE "pending"

\* The array Promise.all resolves to: one result per callback, by position.
\* Faulty variant: the result of the callback that returned first comes first.
collectAsCompleted(mode, ws, firstDone) ==
    IF firstDone \in DOMAIN ws
    THEN <<resultOf(mode, ws[firstDone])>>
         \o [i \in 1 .. Len(ws) - 1 |->
                resultOf(mode, ws[IF i < firstDone THEN i ELSE i + 1])]
    ELSE [i \in DOMAIN ws |-> resultOf(mode, ws[i])]
collect(mode, ws, firstDone) == [i \in DOMAIN ws |-> resultOf(mode, ws[i])]

\* Promise.all resolves: the payload is built, cached and returned.
Finish(r) ==
    /\ req[r].pc = "walking"
    /\ outcome(walk[r]) = "fulfilled"
    /\ LET q == req[r]
           payload == [sinceSec |-> q.sinceSec, addresses |-> q.addresses,
                       results |-> collect(q.mode, walk[r], q.firstDone),
                       fetchedAt |-> clock]
       IN  /\ cache' = [cache EXCEPT ![q.mode] =
                  cacheSet(@, cacheKey(q.mode, q.raw, q.sinceRaw), clock, payload)]
           /\ last' = [q EXCEPT !.pc = "responded", !.status = 200, !.payload = payload,
                              !.failed = \E i \in DOMAIN walk[r] : walk[r][i].pc = "thrown"]
           /\ req' = [req EXCEPT ![r] = idleReq]
    /\ walk' = [walk EXCEPT ![r] = <<>>]
    /\ probe' = [probe EXCEPT ![r] = <<>>]
    /\ UNCHANGED browserVars
    /\ UNCHANGED quoteVars
    /\ UNCHANGED <<clock, feedPages, client, upstream, conv, budget, ticksLeft>>

\* The response to a request whose handler threw: neither route catches, so
\* the framework answers for it.
UnhandledStatus == 500

\* An awaited fetch rejects (fetchJson throws on a non-2xx status, on a network
\* error and on a body that is not JSON): the callback throws, Promise.all
\* rejects and GET throws.  The callbacks of the other addresses go on running
\* with nobody awaiting them; the model drops them with the request.
Throw(r, i) ==
    /\ upstream.failing
    /\ req[r].pc = "walking"
    /\ walk[r][i].pc = "await"
    /\ LET q == req[r]
           ws == [walk[r] EXCEPT ![i].pc = "thrown"]
       IN  IF outcome(ws) = "rejected"
           THEN /\ last' = [q EXCEPT !.pc = "responded", !.status = UnhandledStatus,
                                   !.failed = TRUE]
                /\ req' = [req EXCEPT ![r] = idleReq]
                /\ walk' = [walk EXCEPT ![r] = <<>>]
                /\ probe' = [probe EXCEPT ![r] = <<>>]
           ELSE /\ walk' = [walk EXCEPT ![r] = ws]
                /\ probe' = [probe EXCEPT ![r][i].pending = {}]
                /\ UNCHANGED <<req, last>>
    /\ UNCHANGED browserVars
    /\ UNCHANGED quoteVars
    /\ UNCHANGED <<clock, cache, feedPages, client, upstream, conv, budget, ticksLeft>>

\* weiToNumber is called and returns.
NoConv ==
    [wei |-> weiString("empty", FALSE, 0), decimals |-> 0, asked |-> FALSE,
     done |-> FALSE, out |-> [null |-> TRUE, micro |-> 0]]
Convert ==
    /\ conv.asked /\ ~conv.done
    /\ conv' = [conv EXCEPT !.done = TRUE, !.out = weiToNumber(conv.wei, conv.decimals)]
    /\ UNCHANGED browserVars
    /\ UNCHANGED quoteVars
    /\ UNCHANGED <<clock, cache, req, last, walk, probe, feedPages, client, upstream,
                   budget, ticksLeft>>

\* Time passes.  The handlers read the clock when a request arrives and when
\* its payload is built, so only steps before those reads are taken.
Tick(d) ==
    /\ ticksLeft > 0
    /\ budget > 0 \/ \E r \in Slots : req[r].pc = "walking" /\ allDone(r)
    /\ clock' = clock + d
    /\ ticksLeft' = ticksLeft - 1
    /\ UNCHANGED browserVars
    /\ UNCHANGED quoteVars
    /\ UNCHANGED <<cache, req, last, walk, probe, feedPages, client, upstream, conv, budget>>

\* The observer reads the next page of the feed the finished walk did not fetch.
Audit(r, i) ==
    /\ req[r].pc = "walking"
    /\ i \in DOMAIN walk[r]
    /\ walk[r][i].pc = "done"
    /\ LET q == req[r]
           pr == probe[r][i]
           a == walk[r][i].address
       IN  /\ pr.wf /\ ~pr.late
           /\ pr.revealed < feedPages[a]
           /\ \E rsp \in Responses(a, pr.revealed + 1) :
                 probe' = [probe EXCEPT ![r][i] =
                    audit(@, q.mode, a, rsp, lowerBound(q), q.nowSec - sec7d)]
    /\ UNCHANGED browserVars
    /\ UNCHANGED quoteVars
    /\ UNCHANGED <<clock, cache, req, last, walk, feedPages, client, upstream, conv, budget, ticksLeft>>

SinceChoices(mode) == IF mode = "rewards" THEN {""} ELSE client.sinces

Request ==
    \E r \in Slots, mode \in client.modes, raw \in client.raws :
        \E sinceRaw \in SinceChoices(mode) : GET(r, mode, raw, sinceRaw)
Page == \E r \in Slots : \E i \in DOMAIN walk[r] : Respond(r, i)
Done == \E r \in Slots : Finish(r)
Time == \E d \in Deltas : Tick(d)
Observe == \E r \in Slots : \E i \in DOMAIN walk[r] : Audit(r, i)
Fail == \E r \in Slots : \E i \in DOMAIN walk[r] : Throw(r, i)

(***************************************************************************)
(* The browser: tabs showing the Dashboard ("prices") or the               *)
(* StakingTracker ("staking") over one localStorage.                       *)
(***************************************************************************)
Tabs == {1, 2}
\* defaultAddresses / trackedAddresses
DefaultAddresses == << <<"a">>, <<"b">> >>

closedTab ==
    [view |-> "closed", data |-> NoData, tracking |-> NoTracking,
     lifetimeStartedAt |-> Null]
\* The tab after an exception during rendering: the components are gone.
crashedTab == [closedTab EXCEPT !.view = "crashed"]
EmptyStorage == [tracking |-> NoItem, lifetime |-> NoNumber]
NoEvent == [tab |-> 0, kind |-> "none"]

\* The payloads /api/theta/rewards answers the tracker's refresh with: one
\* result per address, in the order asked.
Snapshots ==
    { snapshot(<<row(DefaultAddresses[1], x), row(DefaultAddresses[2], y)>>) :
        x \in browser.balances[DefaultAddresses[1]],
        y \in browser.balances[DefaultAddresses[2]] }
\* What `await res.json()` yields in load(), which does not look at res.ok: a
\* payload, or the JSON body of an error response.  (When the body is not JSON
\* the call throws and load() ends without touching any state.)
Jsons == Snapshots \cup (IF browser.errors THEN {errorBody} ELSE {})

\* The "storage" event: the Dashboard of every other tab runs loadTracking.
\* The StakingTracker registers no listener.
onStorage(ts, writer, item) ==
    [u \in DOMAIN ts |->
        IF u # writer /\ ts[u].view = "prices"
        THEN [ts[u] EXCEPT !.tracking = loadTracking(item)]
        ELSE ts[u]]

\* The tab mounts the component of view v (a tab opens on "prices").  The
\* StakingTracker's effects read the stored state into `tracking` and, run
\* with the initial null and then with the state read, rewrite the item.
Show(t, v) ==
    /\ t \in browser.tabs
    /\ v \in {"prices", "staking"}
    /\ tabs[t].view # v
    /\ tabs[t].view \in {"closed", "crashed"} => v = "prices"
    /\ event' = [tab |-> t, kind |-> "show"]
    /\ IF v = "prices"
       THEN /\ tabs' = [tabs EXCEPT ![t] =
                  [view |-> v, data |-> NoData,
                   tracking |-> loadTracking(storage.tracking),
                   lifetimeStartedAt |-> readNumberFromLocalStorage(storage.lifetime)]]
            /\ storage' = storage
       ELSE LET loaded == parseTracking(storage.tracking)
                item == persist(persist(storage.tracking, NoTracking), loaded)
            IN  /\ storage' = [storage EXCEPT !.tracking = item]
                /\ tabs' = onStorage(
                      [tabs EXCEPT ![t] =
                          [view |-> v, data |-> NoData, tracking |-> loaded,
                           lifetimeStartedAt |-> Null]], t, item)
    /\ alert' = afterRender(alert, t, tabs'[t],
                            IF v = "staking" THEN loadAlert(alert.item) ELSE NoAlert)
    /\ UNCHANGED <<wall, browser, calc>>
    /\ UNCHANGED serverVars
    /\ UNCHANGED quoteVars

\* load() of the StakingTracker after `await res.json()` (lines 2682-2703).
\* A running state is replaced by a new object, which the effect persists; an
\* error body has no results, so the updater of a running state throws.
Refresh(t, json) ==
    /\ t \in browser.tabs
    /\ tabs[t].view = "staking"
    /\ event' = [tab |-> t, kind |-> "refresh"]
    /\ LET prev == tabs[t].tracking
       IN  IF json.kind = "error" /\ prev.running
           THEN /\ tabs' = [tabs EXCEPT ![t] = crashedTab]
                /\ storage' = storage
           ELSE LET next ==
                        IF prev.running
                        THEN [prev EXCEPT !.series =
                                refreshSeries(prev.series, prev.baselines, json.results,
                                              dayKeyLocal(wall))]
                        ELSE prev
                    item == IF prev.running THEN persist(storage.tracking, next)
                            ELSE storage.tracking
                IN  /\ storage' = [storage EXCEPT !.tracking = item]
                    /\ tabs' = onStorage(
                          [tabs EXCEPT ![t].data = json, ![t].tracking = next], t, item)
    /\ alert' = afterRender(alert, t, tabs'[t], alert.of[t])
    /\ UNCHANGED <<wall, browser, calc>>
    /\ UNCHANGED serverVars
    /\ UNCHANGED quoteVars

\* The lifetime item after the start button looked at it (lines 2857-2864).
\* Faulty variant: every start writes the lifetime item.
lifetimeAlways(item, now) == writeNumberToLocalStorage(item, now)
lifetimeAfterStart(item, now) ==
    IF readNumberFromLocalStorage(item) = Null
    THEN writeNumberToLocalStorage(item, now)
    ELSE item

\* onClick of the start/stop button (lines 2849-2880).
Click(t) ==
    /\ t \in browser.tabs
    /\ tabs[t].view = "staking"
    /\ event' = [tab |-> t, kind |-> "click"]
    /\ LET c == tabs[t]
           lifetime == lifetimeAfterStart(storage.lifetime, wall)
           seen == IF lifetime # storage.lifetime THEN wall ELSE c.lifetimeStartedAt
       IN  IF c.tracking.running
           THEN LET item == persist(storage.tracking, NoTracking)
                IN  /\ storage' = [storage EXCEPT !.tracking = item]
                    /\ tabs' = onStorage([tabs EXCEPT ![t].tracking = NoTracking], t, item)
           ELSE IF c.data.kind = "none"
           THEN UNCHANGED <<storage, tabs>>
           ELSE IF c.data.kind = "error"
           THEN /\ storage' = [storage EXCEPT !.lifetime = lifetime]
                /\ tabs' = [tabs EXCEPT ![t].lifetimeStartedAt = seen]
           ELSE LET next == startTracking(c.data, wall)
                    item == persist(storage.tracking, next)
                IN  /\ storage' = [tracking |-> item, lifetime |-> lifetime]
                    /\ tabs' = onStorage(
                          [tabs EXCEPT ![t].tracking = next,
                                       ![t].lifetimeStartedAt = seen], t, item)
    /\ alert' = afterRender(alert, t, tabs'[t], alert.of[t])
    /\ UNCHANGED <<wall, browser, calc>>
    /\ UNCHANGED serverVars
    /\ UNCHANGED quoteVars

\* A day passes.
Pass ==
    /\ dayKeyLocal(wall) < 1 + browser.days
    /\ wall' = wall + msPerDay
    /\ event' = [tab |-> 0, kind |-> "pass"]
    /\ UNCHANGED <<storage, tabs, browser, calc, alert>>
    /\ UNCHANGED serverVars
    /\ UNCHANGED quoteVars

\* dailyDeltas is called and returns.
NoCalc == [series |-> <<>>, asked |-> FALSE, done |-> FALSE, out |-> <<>>]
CallDailyDeltas ==
    /\ calc.asked /\ ~calc.done
    /\ calc' = [calc EXCEPT !.done = TRUE, !.out = dailyDeltas(calc.series)]
    /\ UNCHANGED <<wall, storage, tabs, browser, event, alert>>
    /\ UNCHANGED serverVars
    /\ UNCHANGED quoteVars

\* The texts typed into the threshold field and the prices of TFUEL in USD
\* the page has (null until a price is loaded).
ThresholdTexts == {Unparseable, 0, 1, 2}
UsdPrices == {Null, 1}
NoAlerts ==
    [of |-> [t \in Tabs |-> NoAlert], usd |-> [t \in Tabs |-> Null], item |-> NoAlertItem]

\* onClick of "Enable alert": setAlertEnabled((v) => !v).
ToggleAlert(t) ==
    /\ t \in browser.tabs
    /\ tabs[t].view = "staking"
    /\ event' = [tab |-> t, kind |-> "toggle"]
    /\ alert' = afterRender(alert, t, tabs[t], [alert.of[t] EXCEPT !.enabled = ~@])
    /\ UNCHANGED <<wall, storage, tabs, browser, calc>>
    /\ UNCHANGED serverVars
    /\ UNCHANGED quoteVars

\* onChange of the threshold field: setAlertThresholdUsd(e.target.value).
TypeThreshold(t, text) ==
    /\ t \in browser.tabs
    /\ tabs[t].view = "staking"
    /\ text # alert.of[t].threshold
    /\ event' = [tab |-> t, kind |-> "threshold"]
    /\ alert' = afterRender(alert, t, tabs[t], [alert.of[t] EXCEPT !.threshold = text])
    /\ UNCHANGED <<wall, storage, tabs, browser, calc>>
    /\ UNCHANGED serverVars
    /\ UNCHANGED quoteVars

\* onClick of "Dismiss": setAlertBanner(null).
DismissBanner(t) ==
    /\ t \in browser.tabs
    /\ tabs[t].view = "staking"
    /\ alert.of[t].banner
    /\ event' = [tab |-> t, kind |-> "dismiss"]
    /\ alert' = afterRender(alert, t, tabs[t], [alert.of[t] EXCEPT !.banner = FALSE])
    /\ UNCHANGED <<wall, storage, tabs, browser, calc>>
    /\ UNCHANGED serverVars
    /\ UNCHANGED quoteVars

\* The page's prices change: the `prices` prop of the component.
SetPrices(t, usd) ==
    /\ t \in browser.tabs
    /\ tabs[t].view \in {"prices", "staking"}
    /\ usd # alert.usd[t]
    /\ event' = [tab |-> t, kind |-> "prices"]
    /\ alert' = afterRender([alert EXCEPT !.usd[t] = usd], t, tabs[t], alert.of[t])
    /\ UNCHANGED <<wall, storage, tabs, browser, calc>>
    /\ UNCHANGED serverVars
    /\ UNCHANGED quoteVars

Open == \E t \in Tabs, v \in {"prices", "staking"} : Show(t, v)
Load == \E t \in Tabs : \E json \in Jsons : Refresh(t, json)
Press == \E t \in Tabs : Click(t)
Toggle == \E t \in Tabs : ToggleAlert(t)
Type == \E t \in Tabs : \E text \in ThresholdTexts : TypeThreshold(t, text)
Dismiss == \E t \in Tabs : DismissBanner(t)
Quote == \E t \in Tabs : \E usd \in UsdPrices : SetPrices(t, usd)

\* The price route.  GET(request) up to its first fetch or its response;
\* hasKey is whether SIMPLESWAP_API_KEY is set.
PriceSymbols ==
    { sym("", FALSE, FALSE), sym("", FALSE, TRUE), sym("tfuel", FALSE, FALSE),
      sym("tfuel", TRUE, TRUE), sym("theta", TRUE, FALSE), sym("btc", FALSE, FALSE) }
Prices == 0 .. MaxBalance
EstimateAnswers ==
    {[kind |-> k, value |-> Null] : k \in {"http", "other", "throws"}}
    \cup {[kind |-> k, value |-> v] : k \in {"number", "object"}, v \in Prices}
SpotAnswers ==
    {[kind |-> k, usdc |-> Null, usd |-> Null] : k \in {"http", "other", "throws"}}
    \cup {[kind |-> "row", usdc |-> c, usd |-> d] :
              c \in {Null} \cup Prices, d \in {Null} \cup Prices}
PriceGET(raw, hasKey) ==
    /\ price.pc \in {"idle", "done"}
    /\ LET p == [idlePrice EXCEPT !.raw = raw, !.hasKey = hasKey,
                                  !.symbol = lowerSymbol(trimSymbol(raw))]
       IN  price' =
              IF isEmptySymbol(p.symbol)
              THEN [p EXCEPT !.pc = "done", !.status = 400, !.error = "Missing symbol"]
              ELSE IF ~hasKey THEN afterEstimated(p, missingKeyQuote)
              ELSE [p EXCEPT !.pc = "estimate", !.calls = <<"simpleswap">>]
    /\ UNCHANGED history
    /\ UNCHANGED serverVars
    /\ UNCHANGED browserVars

\* The fetch of fetchEstimated settles: a rejected fetch, or a body that is
\* not JSON, throws out of the handler.
Estimated(ans) ==
    /\ price.pc = "estimate"
    /\ price' =
          IF ans.kind = "throws"
          THEN [price EXCEPT !.pc = "done", !.status = UnhandledStatus, !.threw = TRUE]
          ELSE afterEstimated(price, estimatedQuote(ans))
    /\ UNCHANGED history
    /\ UNCHANGED serverVars
    /\ UNCHANGED browserVars

\* The fetch of fetchCoinGeckoSpot settles.
Spotted(ans) ==
    /\ price.pc = "spot"
    /\ price' =
          IF ans.kind = "throws"
          THEN [price EXCEPT !.pc = "done", !.status = UnhandledStatus, !.threw = TRUE]
          ELSE priceResponse(price, spotOf(ans).usdc, spotOf(ans).usd,
                             sourceAfterFallback(spotOf(ans).usdc, spotOf(ans).usd))
    /\ UNCHANGED history
    /\ UNCHANGED serverVars
    /\ UNCHANGED browserVars

AskPrice == \E raw \in PriceSymbols, hasKey \in BOOLEAN : PriceGET(raw, hasKey)
Estimate == \E ans \in EstimateAnswers : Estimated(ans)
Spot == \E ans \in SpotAnswers : Spotted(ans)

\* The history route.  GET(request) up to its fetch or its 400.
HistorySymbols ==
    { sym("", FALSE, FALSE), sym("tfuel", FALSE, FALSE), sym("tfuel", FALSE, TRUE),
      sym("theta", TRUE, FALSE), sym("btc", FALSE, FALSE) }
\* -1.5, -0.5, 0, 0.4, 0.5, 1.5, 30, 89.4, 89.5, 90, 90.5, 2000
DayTenths == {0 - 15, 0 - 5, 0, 4, 5, 15, 300, 894, 895, 900, 905, 20000}
DaysInputs ==
    {[kind |-> k, tenths |-> 0] : k \in {"absent", "empty", "nan", "inf"}}
    \cup {[kind |-> "num", tenths |-> t] : t \in DayTenths}
\* What CoinGecko answers: a chart ("ok", its points), a JSON object without
\* prices ("noprices"), a status that is not ok ("http"), a rejected fetch
\* ("throws"), a body that is not JSON ("badjson"), the JSON null ("null").
ChartAnswers ==
    {[kind |-> k, points |-> <<>>] : k \in {"noprices", "http", "throws", "badjson", "null"}}
    \cup {[kind |-> "ok", points |-> ps] : ps \in {<<>>, <<TRUE>>, <<TRUE, FALSE>>}}
HistoryGET(s, raw) ==
    /\ history.pc \in {"idle", "done"}
    /\ LET h == [idleHistory EXCEPT !.symbol = lowerSymbol(s), !.raw = raw,
                                    !.days = clampDays(raw)]
       IN  history' =
              IF symbolToCoinGeckoId(h.symbol) = ""
              THEN [h EXCEPT !.pc = "done", !.status = 400, !.error = "Invalid symbol"]
              ELSE [h EXCEPT !.pc = "fetch", !.calls = 1]
    /\ UNCHANGED price
    /\ UNCHANGED serverVars
    /\ UNCHANGED browserVars

\* fetchJson settles: the try block ends or the catch block answers.
Charted(ans) ==
    /\ history.pc = "fetch"
    /\ history' =
          IF ans.kind \in {"ok", "noprices"}
          THEN [history EXCEPT !.pc = "done", !.status = 200, !.answer = ans.kind,
                               !.prices = keptPoints(ans.points)]
          ELSE [history EXCEPT !.pc = "done", !.status = BadGateway, !.answer = ans.kind,
                               !.error = "history_fetch_failed"]
    /\ UNCHANGED price
    /\ UNCHANGED serverVars
    /\ UNCHANGED browserVars

AskHistory == \E s \in HistorySymbols, raw \in DaysInputs : HistoryGET(s, raw)
Chart == \E ans \in ChartAnswers : Charted(ans)

Next == Request \/ Page \/ Done \/ Time
NextWalk == Request \/ Page \/ Done \/ Observe
NextBatch == Request \/ Page \/ Done \/ Fail
NextWei == Convert
NextStake == Request \/ Page \/ Done
NextCache == Request \/ Page \/ Done \/ Time \/ Fail
NextTracker == Open \/ Load \/ Press \/ Pass
NextTabs == Open \/ Load \/ Press
NextDeltas == CallDailyDeltas
NextPrice == AskPrice \/ Estimate \/ Spot
NextHistory == AskHistory \/ Chart
NextAlert == Open \/ Load \/ Press \/ Toggle \/ Type \/ Dismiss \/ Quote

(***************************************************************************)
(* Initial states.                                                         *)
(***************************************************************************)
InitState ==
    /\ clock = 0
    /\ cache = [m \in Modes |-> {}]
    /\ req = [r \in Slots |-> idleReq]
    /\ last = idleReq
    /\ walk = [r \in Slots |-> <<>>]
    /\ probe = [r \in Slots |-> <<>>]
    /\ price = idlePrice
    /\ history = idleHistory

\* An explorer that always answers, for addresses without balance or stake.
Reliable ==
    [anyBody |-> TRUE, steady |-> FALSE, balances |-> {Null}, stakes |-> {<<>>},
     failing |-> FALSE]

\* No browser.
Offline ==
    /\ wall = msPerDay
    /\ storage = EmptyStorage
    /\ tabs = [t \in Tabs |-> closedTab]
    /\ browser = [tabs |-> {}, balances |-> [a \in Addresses |-> {}],
                  errors |-> FALSE, days |-> 0]
    /\ event = NoEvent
    /\ calc = NoCalc
    /\ alert = NoAlerts

\* No client of the endpoints.
Quiet ==
    /\ InitState
    /\ feedPages = [a \in Addresses |-> 0]
    /\ client = [modes |-> {}, raws |-> {}, sinces |-> {}]
    /\ upstream = Reliable
    /\ conv = NoConv
    /\ budget = 0
    /\ ticksLeft = 0

\* The raw address lists of the clients: "", ",", "a", "A", "a,z".
RawInputs == { <<>>, <<",">>, <<"a">>, <<"A">>, <<"a", ",", "z">> }
SinceInputs == {"", "abc", "408000"}

\* Every client input, against explorers whose feeds are empty.
Init ==
    /\ InitState
    /\ Offline
    /\ feedPages = [a \in Addresses |-> 0]
    /\ client = [modes |-> Modes, raws |-> RawInputs, sinces |-> SinceInputs]
    /\ upstream = Reliable
    /\ conv = NoConv
    /\ budget = MaxRequests
    /\ ticksLeft = MaxTicks

Spec == Init /\ [][Next]_vars

\* Clients that write the same address list in different ways: "a", "a," and
\* " a".
SameListInputs == { <<"a">>, <<"a", ",">>, <<" ", "a">> }
InitKey ==
    /\ InitState
    /\ Offline
    /\ feedPages = [a \in Addresses |-> 0]
    /\ client = [modes |-> Modes, raws |-> SameListInputs, sinces |-> {"408000"}]
    /\ upstream = Reliable
    /\ conv = NoConv
    /\ budget = 2
    /\ ticksLeft = MaxTicks

SpecKey == InitKey /\ [][Next]_vars

\* One request at clock 0: for address a against a feed of up to two pages or
\* of one page more than a route's cap, or for a and b against short feeds.
FeedLens == {0, 1, 2, RewardsMaxPages + 1, EarnedMaxPages + 1}
InitWalk ==
    /\ InitState
    /\ Offline
    /\ feedPages \in {f \in [Addresses -> FeedLens] : f[<<"b">>] = 0}
    /\ client = [modes |-> Modes,
                 raws |-> IF feedPages[<<"a">>] = 0
                          THEN {<<"a", ",", "b">>, <<"a", ",", "z">>}
                          ELSE {<<"a">>, <<"a", ",", "z">>},
                 sinces |-> {"408000", "2395200", "abc"}]
    /\ upstream = Reliable
    /\ conv = NoConv
    /\ budget = 1
    /\ ticksLeft = 0

SpecWalk == InitWalk /\ [][NextWalk]_vars

\* Requests for two addresses, the same one twice included, against an explorer
\* whose fetches may fail, with one-page feeds, balances and stake records.
Stakes ==
    { <<>>, <<stake("false", 2)>>, <<stake("false", 1)>>, <<stake("false", Null)>>,
      <<stake("false", 2), stake("true", 2)>> }
InitBatch ==
    /\ InitState
    /\ Offline
    /\ feedPages = [a \in Addresses |-> IF a = <<"a">> THEN 1 ELSE 0]
    /\ client = [modes |-> Modes,
                 raws |-> {<<"a", ",", "b">>, <<"b", ",", "a">>, <<"a", ",", "a">>, <<"b">>},
                 sinces |-> {"408000"}]
    /\ upstream = [anyBody |-> FALSE, steady |-> FALSE, balances |-> {Null, 0, 2},
                   stakes |-> Stakes, failing |-> TRUE]
    /\ conv = NoConv
    /\ budget = 1
    /\ ticksLeft = 0

SpecBatch == InitBatch /\ [][NextBatch]_vars

\* One call of weiToNumber.  The amounts and the numbers of decimals are small
\* enough for every product of the conversion to stay below 2^31; decimals
\* above 6 make the sixth fractional digit cut digits off.
Mags == {0, 1, 9, 10, 15, 99, 100, 999, 1000, 1500}
Decimals == {0, 1, 6, 7, 8, 9}
WeiStrings ==
    {weiString("int", FALSE, m) : m \in Mags}
        \cup {weiString("int", TRUE, m) : m \in Mags \ {0}}
        \cup {weiString("empty", FALSE, 0), weiString("text", FALSE, 0)}
InitWei ==
    /\ InitState
    /\ Offline
    /\ feedPages = [a \in Addresses |-> 0]
    /\ client = [modes |-> {}, raws |-> {}, sinces |-> {}]
    /\ upstream = Reliable
    /\ conv \in {[NoConv EXCEPT !.wei = w, !.decimals = d, !.asked = TRUE] :
                    w \in WeiStrings, d \in Decimals}
    /\ budget = 0
    /\ ticksLeft = 0

SpecWei == InitWei /\ [][NextWei]_vars

\* One tab over an empty localStorage, for MaxDays days: the first address
\* has no balance or one up to MaxBalance, the second none or 1, and a
\* refresh may be answered with an error body.
InitTracker ==
    /\ Quiet
    /\ wall = msPerDay
    /\ storage = EmptyStorage
    /\ tabs = [t \in Tabs |-> closedTab]
    /\ browser = [tabs |-> {1},
                  balances |-> [a \in Addresses |->
                                   IF a = DefaultAddresses[1]
                                   THEN {Null} \cup (0 .. MaxBalance)
                                   ELSE {Null, 1}],
                  errors |-> TRUE, days |-> MaxDays]
    /\ event = NoEvent
    /\ calc = NoCalc
    /\ alert = NoAlerts

SpecTracker == InitTracker /\ [][NextTracker]_vars

\* One tab over an empty localStorage on one day: the first address has a
\* balance up to MaxBalance and the second has none.
InitAlert ==
    /\ Quiet
    /\ wall = msPerDay
    /\ storage = EmptyStorage
    /\ tabs = [t \in Tabs |-> closedTab]
    /\ browser = [tabs |-> {1},
                  balances |-> [a \in Addresses |->
                                   IF a = DefaultAddresses[1] THEN 0 .. MaxBalance
                                   ELSE {Null}],
                  errors |-> FALSE, days |-> 0]
    /\ event = NoEvent
    /\ calc = NoCalc
    /\ alert = NoAlerts

SpecAlert == InitAlert /\ [][NextAlert]_vars

\* Two tabs over one localStorage on one day, with balances 1 and 2 for the
\* first address and 1 for the second.
InitTabs ==
    /\ Quiet
    /\ wall = msPerDay
    /\ storage = EmptyStorage
    /\ tabs = [t \in Tabs |-> closedTab]
    /\ browser = [tabs |-> Tabs,
                  balances |-> [a \in Addresses |->
                                   IF a = DefaultAddresses[1] THEN {1, 2} ELSE {1}],
                  errors |-> FALSE, days |-> 0]
    /\ event = NoEvent
    /\ calc = NoCalc
    /\ alert = NoAlerts

SpecTabs == InitTabs /\ [][NextTabs]_vars

\* One call of dailyDeltas on a series of 1 to 3 days or of about a window of
\* days, with consecutive days or every second day, whose values rise, stay,
\* go up and down or fall, and end in any two values up to MaxBalance.
SeriesLens == {1, 2, 3, DisplayDays, DisplayDays + 1, DisplayDays + 2}
DayGaps == {1, 2}
Shapes == {"rise", "flat", "saw", "fall"}
shapeAt(p, i) ==
    IF p = "rise" THEN i
    ELSE IF p = "flat" THEN 1
    ELSE IF p = "saw" THEN i % 3
    ELSE DisplayDays + 3 - i
seriesOf(n, gap, p, x, y) ==
    [d \in {gap * i : i \in 1 .. n} |->
        IF d = gap * n THEN y
        ELSE IF d = gap * (n - 1) THEN x
        ELSE shapeAt(p, d \div gap)]
SeriesInputs ==
    {seriesOf(n, gap, p, x, y) :
        n \in SeriesLens, gap \in DayGaps, p \in Shapes,
        x \in 0 .. MaxBalance, y \in 0 .. MaxBalance}
InitDeltas ==
    /\ Quiet
    /\ wall = msPerDay
    /\ storage = EmptyStorage
    /\ tabs = [t \in Tabs |-> closedTab]
    /\ browser = [tabs |-> {}, balances |-> [a \in Addresses |-> {}],
                  errors |-> FALSE, days |-> 0]
    /\ event = NoEvent
    /\ calc \in {[NoCalc EXCEPT !.series = s, !.asked = TRUE] : s \in SeriesInputs}
    /\ alert = NoAlerts

SpecDeltas == InitDeltas /\ [][NextDeltas]_vars

\* One /rewards request for address a, whose feed has two pages, against an
\* explorer that answers the stake lookup with up to two records: withdrawn
\* false, true or missing, the amount missing, unparseable or up to MaxWei.
StakeRecords ==
    {stake(w, x) : w \in {"false", "true", "missing"},
                   x \in {Null, Unparseable} \cup (1 .. MaxWei)}
StakeLists ==
    {<<>>} \cup {<<r>> : r \in StakeRecords}
           \cup {<<r1, r2>> : r1 \in StakeRecords, r2 \in StakeRecords}
InitStake ==
    /\ InitState
    /\ Offline
    /\ feedPages = [a \in Addresses |-> IF a = <<"a">> THEN 2 ELSE 0]
    /\ client = [modes |-> {"rewards"}, raws |-> {<<"a">>}, sinces |-> {""}]
    /\ upstream = [anyBody |-> FALSE, steady |-> FALSE, balances |-> {Null, 2},
                   stakes |-> StakeLists, failing |-> FALSE]
    /\ conv = NoConv
    /\ budget = 1
    /\ ticksLeft = 0

SpecStake == InitStake /\ [][NextStake]_vars

\* Two requests for address a, on either route, against an explorer that
\* always answers and whose feed for a is one page that does not change.
InitRace ==
    /\ InitState
    /\ Offline
    /\ feedPages = [a \in Addresses |-> IF a = <<"a">> THEN 1 ELSE 0]
    /\ client = [modes |-> Modes, raws |-> {<<"a">>}, sinces |-> {"408000"}]
    /\ upstream = [Reliable EXCEPT !.steady = TRUE]
    /\ conv = NoConv
    /\ budget = 2
    /\ ticksLeft = MaxTicks

SpecRace == InitRace /\ [][Next]_vars

\* Requests for address a under two spellings of the list ("a" and "a,") and
\* for a malformed address, on either route, against an explorer whose fetches
\* may fail and whose feed for a is one page that does not change.
InitCache ==
    /\ InitState
    /\ Offline
    /\ feedPages = [a \in Addresses |-> IF a = <<"a">> THEN 1 ELSE 0]
    /\ client = [modes |-> Modes, raws |-> {<<"a">>, <<"a", ",">>, <<"z">>},
                 sinces |-> {"408000"}]
    /\ upstream = [Reliable EXCEPT !.steady = TRUE, !.failing = TRUE]
    /\ conv = NoConv
    /\ budget = MaxRequests
    /\ ticksLeft = MaxTicks

SpecCache == InitCache /\ [][NextCache]_vars

\* Requests to the price route, one after the other.
InitPrice == Quiet /\ Offline
SpecPrice == InitPrice /\ [][NextPrice]_vars
\* Requests to the history route, one after the other.
InitHistory == Quiet /\ Offline
SpecHistory == InitHistory /\ [][NextHistory]_vars

(***************************************************************************)
(* Properties.                                                             *)
(***************************************************************************)
Walks == {<<r, i>> \in Slots \X (1 .. 2) : i \in DOMAIN walk[r]}
W(x) == walk[x[1]][x[2]]
P(x) == probe[x[1]][x[2]]
M(x) == req[x[1]].mode
UpTo(n) == [k \in 1 .. n |-> k]
outerTotal(x) == IF M(x) = "rewards" THEN W(x).rewards30d ELSE W(x).total

\* C1: a walk never requests more than maxPages pages (25 for /rewards, page 1
\* included, 40 for /earned); a walk that ended without any page being empty,
\* crossing the boundary or being reported as the last one has requested
\* exactly the pages 1..maxPages.
C1_PageCap ==
    \A x \in Walks :
        /\ Len(P(x).requested) <= maxPages(M(x))
        /\ (W(x).pc = "done" /\ ~P(x).stopSeen)
              => P(x).requested = UpTo(maxPages(M(x)))
C1_Witness ==
    \E x \in Walks :
        /\ M(x) = "rewards" /\ W(x).pc = "done" /\ ~P(x).stopSeen
        /\ feedPages[W(x).address] > RewardsMaxPages
        /\ Len(P(x).requested) = RewardsMaxPages

\* C2 as stated: in since mode, once a fetched page holds a record with a
\* timestamp below since, the walk is over and nothing is outstanding, and the
\* total holds every qualifying record of the pages fetched, that page included.
C2_Original ==
    \A x \in Walks :
        M(x) = "earned" =>
            /\ (P(x).answered > 0 /\ P(x).old) => (W(x).pc = "done" /\ P(x).pending = {})
            /\ W(x).total = P(x).refA
\* C2 amended: the same, for a page that holds a record whose timestamp is a
\* non-zero number below since (a timestamp "0" is skipped as if it were missing).
C2_StopAfterOldPage ==
    \A x \in Walks :
        M(x) = "earned" =>
            /\ (P(x).answered > 0 /\ P(x).oldNonZero)
                  => (W(x).pc = "done" /\ P(x).pending = {})
            /\ W(x).total = P(x).refA
C2_Witness ==
    \E x \in Walks :
        /\ M(x) = "earned" /\ P(x).answered = 2 /\ P(x).oldNonZero
        /\ P(x).pageQual > 0 /\ W(x).pc = "done" /\ W(x).total > P(x).pageQual

\* C3: in windowed mode, once the last record of the page just ingested is
\* older than now - 30d no further page is requested, and the two sums hold
\* exactly the qualifying records at or after their bounds: a record older
\* than now - 30d adds to neither.
C3_WindowStop ==
    \A x \in Walks :
        M(x) = "rewards" =>
            /\ (P(x).answered > 0 /\ P(x).old) => (W(x).pc = "done" /\ P(x).pending = {})
            /\ W(x).rewards30d = P(x).refA
            /\ W(x).rewards7d = P(x).refB
C3_Witness ==
    \E x \in Walks :
        /\ M(x) = "rewards" /\ P(x).answered = 2 /\ P(x).old /\ W(x).pc = "done"
        /\ feedPages[W(x).address] > 2
        /\ W(x).rewards30d > W(x).rewards7d /\ W(x).rewards7d > 0

\* C4: when the feed is newest-first, holds non-empty pages up to its length and
\* none of its in-window records lies past page maxPages, then once every page
\* of the feed is known the totals equal the sums over all its records at or
\* after the lower bounds: the pages the walk did not fetch add nothing.
C4_TotalsComplete ==
    \A x \in Walks :
        (/\ W(x).pc = "done"
         /\ P(x).wf /\ ~P(x).late
         /\ P(x).revealed >= feedPages[W(x).address])
        => /\ outerTotal(x) = P(x).refA + P(x).restA
           /\ W(x).rewards7d = P(x).refB + P(x).restB
C4_Witness ==
    \E x \in Walks :
        /\ W(x).pc = "done" /\ P(x).wf /\ ~P(x).late
        /\ P(x).revealed >= feedPages[W(x).address]
        /\ P(x).revealed > P(x).answered
        /\ P(x).answered >= 2
        /\ outerTotal(x) > 1

\* C5: after any number of ingested pages rewards30d >= rewards7d, and a
\* returned result carries a rewards7d only together with a rewards30d.
C5_Window30Covers7 ==
    /\ \A x \in Walks : W(x).rewards30d >= W(x).rewards7d
    /\ \A i \in DOMAIN last.payload.results :
          last.payload.results[i].rewards7d # Null
             => last.payload.results[i].rewards30d # Null
C5_Witness ==
    /\ last.status = 200 /\ last.mode = "rewards"
    /\ \E i \in DOMAIN last.payload.results :
          /\ last.payload.results[i].rewards7d # Null
          /\ last.payload.results[i].rewards30d > last.payload.results[i].rewards7d

\* C6: in both modes, after an empty page (the first one included) the walk is
\* over and nothing is outstanding; when the first page is empty the totals
\* are zero.
C6_EmptyPageStops ==
    \A x \in Walks :
        (P(x).answered > 0 /\ P(x).empty)
        => /\ W(x).pc = "done" /\ P(x).pending = {}
           /\ P(x).answered = 1 => (outerTotal(x) = 0 /\ W(x).rewards7d = 0)

\* C7: in both modes, after a page (page 1 included) that the explorer reports
\* with currentPage >= totalPages, no further page is requested.
C7_LastPageStops ==
    \A x \in Walks :
        (P(x).answered > 0 /\ P(x).repLast)
        => (W(x).pc = "done" /\ P(x).pending = {})

\* C8: a walk requests the pages 1, 2, ..., n in this order, the request for a
\* page is outstanding only once the responses of all pages before it have
\* been ingested, and at most one is outstanding per address.
C8_PagesInOrder ==
    \A x \in Walks :
        LET n == Len(P(x).requested)
        IN  /\ P(x).requested = UpTo(n)
            /\ Cardinality(P(x).pending) <= 1
            /\ P(x).pending # {} => (P(x).pending = {n} /\ P(x).answered = n - 1)
            /\ P(x).pending = {} => P(x).answered = n
\* Two walks of one request, the second address a page ahead of the first.
C8_Witness ==
    \E r \in Slots :
        /\ Len(walk[r]) = 2
        /\ probe[r][1].pending = {1}
        /\ probe[r][2].pending = {2}

\* C9: whatever the caches hold, a request whose parsed address list is empty
\* is answered 400 'Missing addresses'; otherwise one with an entry that is
\* not a canonical address is answered 400 'Invalid address'; otherwise an
\* /earned request whose since is not a finite number > 0 is answered 400
\* 'Invalid since'.
C9_ValidationFirst ==
    last.pc = "responded" =>
        LET addresses == toAddressList(last.raw)
            since == NumberOf(last.sinceRaw)
        IN  IF Len(addresses) = 0
            THEN last.status = 400 /\ last.error = "Missing addresses"
            ELSE IF \E i \in DOMAIN addresses : ~isHexAddress(addresses[i])
            THEN last.status = 400 /\ last.error = "Invalid address"
            ELSE IF last.mode = "earned" /\ ~(since.finite /\ since.val > 0)
            THEN last.status = 400 /\ last.error = "Invalid since"
            ELSE last.status = 200
\* An invalid since is rejected while the /earned cache holds a fresh entry
\* for the same address list.
C9_Witness ==
    /\ last.pc = "responded" /\ last.mode = "earned"
    /\ last.status = 400 /\ last.error = "Invalid since"
    /\ \E e \in cache["earned"] :
          /\ e.key[1] = toLowerCase(last.raw)
          /\ isFresh(clock, e.ts, EarnedCacheTtlMs)

\* C10: the step of a request that ends in a validation error requests no
\* page and leaves both caches as they were, and every walk in flight belongs
\* to a request that passed validation.
C10_ErrorStep ==
    (budget' < budget /\ req' = req /\ last'.status = 400)
        => (cache' = cache /\ walk' = walk /\ probe' = probe)
C10_NoFetchOnError == [][C10_ErrorStep]_vars
\* A request was rejected while the walk of an earlier request had a page
\* outstanding.
C10_Witness ==
    /\ last.pc = "responded" /\ last.status = 400
    /\ \E x \in Walks : P(x).pending # {} /\ P(x).answered > 0

\* C11: a request during which an upstream fetch failed is answered with
\* status 502 and an error code.
C11_UpstreamFailureIs502 ==
    (last.pc = "responded" /\ last.failed)
        => (last.status = 502 /\ last.error # "")

\* C12: the step in which an upstream fetch of one address fails ends the
\* whole request: its response carries no per-address result and is no
\* success, and the cache is left as it was.
C12_FailureStep ==
    (last' # last /\ last'.failed)
        => /\ last'.status # 200
           /\ last'.payload.results = <<>>
           /\ cache' = cache
C12_AllOrNothing == [][C12_FailureStep]_vars
\* A request for two addresses failed after the walk of one of them had
\* completed.
C12_Witness ==
    /\ last.pc = "responded" /\ last.failed
    /\ Len(last.addresses) = 2 /\ last.firstDone # Null

\* C17: in the results of a computed response each of rewards7d, rewards30d
\* and stakedTheta (/rewards) and earned (/earned) is null when the callback's
\* sum is zero and is the sum otherwise: the number 0 is never returned.
C17_FinishStep ==
    \A r \in Slots :
        (req[r].pc = "walking" /\ req'[r].pc = "idle" /\ last'.status = 200) =>
            \A i \in DOMAIN walk[r] :
                LET w == walk[r][i]
                    res == last'.payload.results[i]
                    shown(sum, field) ==
                        /\ field # 0
                        /\ (sum = 0) = (field = Null)
                        /\ (sum # 0) => field = sum
                IN  IF req[r].mode = "rewards"
                    THEN /\ shown(w.rewards7d, res.rewards7d)
                         /\ shown(w.rewards30d, res.rewards30d)
                         /\ shown(w.stakedTheta, res.stakedTheta)
                    ELSE shown(w.total, res.earned)
C17_ZeroIsNull == [][C17_FinishStep]_vars
\* A /rewards result with a stake and a 30-day sum but no 7-day sum.
C17_Witness ==
    /\ last.status = 200 /\ last.mode = "rewards"
    /\ \E i \in DOMAIN last.payload.results :
          /\ last.payload.results[i].stakedTheta > 0
          /\ last.payload.results[i].rewards30d > 0
          /\ last.payload.results[i].rewards7d = Null

\* C18: a computed response has one result per address of the request, in the
\* order of the request: results[i].address = addresses[i], whichever
\* callback returned first.
C18_ResultsInInputOrder ==
    (last.pc = "responded" /\ last.status = 200) =>
        LET addresses == toAddressList(last.raw)
            results == last.payload.results
        IN  /\ Len(results) = Len(addresses)
            /\ \A i \in DOMAIN addresses : results[i].address = addresses[i]
\* The callback of the second address returned first: for two different
\* addresses, and for the same address twice.
C18_Witness ==
    /\ last.pc = "responded" /\ last.status = 200
    /\ last.firstDone = 2
    /\ toAddressList(last.raw) = << <<"b">>, <<"a">> >>
    /\ last.payload.results[2].lastRewardAt # Null

\* The request that arrives in this step: answered at once (from the cache or
\* with an error) or left walking in its slot.
Arrivals ==
    IF budget' < budget
    THEN IF req' = req THEN {last'}
         ELSE {req'[r] : r \in {r2 \in Slots : req'[r2] # req[r2]}}
    ELSE {}
ttlOf(mode) == IF mode = "rewards" THEN RewardsCacheTtlMs ELSE EarnedCacheTtlMs
entriesFor(q) == {e \in cache[q.mode] : e.key = cacheKey(q.mode, q.raw, q.sinceRaw)}

\* C13: a request is answered from the cache only with the payload of an
\* entry for which now - timestamp_written < TTL (45 s for /rewards, 120 s for
\* /earned); when the entry of its key is at or beyond the TTL the request is
\* not answered from the cache and walks the feed again.
C13_ArrivalStep ==
    \A q \in Arrivals :
        /\ q.cached =>
              \E e \in entriesFor(q) :
                  e.payload = q.payload /\ clock - e.ts < ttlOf(q.mode)
        /\ (entriesFor(q) # {} /\ \A e \in entriesFor(q) : clock - e.ts >= ttlOf(q.mode))
              => (~q.cached /\ q.pc = "walking")
C13_ServedOnlyWhileFresh == [][C13_ArrivalStep]_vars
\* A request walks while the entry of its key is exactly TTL old.
C13_Witness ==
    \E r \in Slots :
        /\ req[r].pc = "walking"
        /\ \E e \in entriesFor(req[r]) : clock - e.ts = ttlOf(req[r].mode)

\* C14: when the request answered last was computed at time t and a request
\* with the same route, addresses string and since string arrives before
\* t + TTL, it is answered in that step with the same payload and no walk is
\* started.
C14_RepeatStep ==
    \A q \in Arrivals :
        (/\ last.pc = "responded" /\ last.status = 200
         /\ q.mode = last.mode /\ q.raw = last.raw /\ q.sinceRaw = last.sinceRaw
         /\ clock < last.payload.fetchedAt + ttlOf(q.mode))
        => /\ q.pc = "responded" /\ q.status = 200 /\ q.cached
           /\ q.payload = last.payload
           /\ walk' = walk /\ probe' = probe /\ cache' = cache
C14_RepeatServedFromCache == [][C14_RepeatStep]_vars
\* A repeat was answered from the cache some time after the entry was written.
C14_Witness ==
    /\ last.pc = "responded" /\ last.cached
    /\ clock > last.payload.fetchedAt

\* C15: when the request answered last was computed at time t and a request
\* arrives before t + TTL whose address list normalizes to the same list, with
\* the same since, it has the same cache key and is answered from that entry.
C15_SameListStep ==
    \A q \in Arrivals :
        (/\ last.pc = "responded" /\ last.status = 200
         /\ q.mode = last.mode /\ q.sinceRaw = last.sinceRaw
         /\ toAddressList(q.raw) = toAddressList(last.raw)
         /\ clock < last.payload.fetchedAt + ttlOf(q.mode))
        => /\ cacheKey(q.mode, q.raw, q.sinceRaw)
                = cacheKey(last.mode, last.raw, last.sinceRaw)
           /\ q.cached /\ q.payload = last.payload
C15_SameListSharesEntry == [][C15_SameListStep]_vars

\* C16: records without a usable timestamp or without a positive amount for
\* the address never end a walk abnormally, and after every ingested page the
\* totals and lastRewardAt are what the same pages give once those records
\* are removed: the sums and the newest timestamp of the records that count.
C16_MalformedDropped ==
    \A x \in Walks :
        /\ W(x).pc \in {"await", "done"}
        /\ P(x).cleanSame
        /\ W(x).lastRewardAt = P(x).refLast
        /\ outerTotal(x) = P(x).refA
        /\ M(x) = "rewards" => W(x).rewards7d = P(x).refB
\* A finished walk that met malformed records and still has a total.
C16_Witness ==
    \E x \in Walks :
        /\ W(x).pc = "done" /\ P(x).malformed /\ P(x).answered >= 2
        /\ outerTotal(x) > 1 /\ W(x).lastRewardAt # Null

\* C19: for a non-negative integer base amount and decimals d >= 0,
\* weiToNumber returns, in units of 10^-6,
\* floor(base / 10^d) * 10^6 + floor((base mod 10^d) * 10^6 / 10^d), which is
\* the value cut off (never rounded up) at the sixth fractional digit,
\* floor(base * 10^6 / 10^d); for base 0 it returns 0.  (Checked for results
\* that a double holds exactly.)
C19_TruncatedAtSixDigits ==
    (conv.done /\ conv.wei.kind = "int" /\ ~conv.wei.neg) =>
        LET base == conv.wei.mag
            d == conv.decimals
        IN  /\ ~conv.out.null
            /\ conv.out.micro
                  = (base \div 10 ^ d) * 1000000 + ((base % 10 ^ d) * 1000000) \div 10 ^ d
            /\ conv.out.micro = (base * 1000000) \div 10 ^ d
            /\ base = 0 => conv.out.micro = 0
\* A conversion that cut digits off: 0.0000015 became 0.000001.
C19_Witness ==
    /\ conv.done /\ conv.wei = weiString("int", FALSE, 15)
    /\ conv.decimals = 7 /\ conv.out.micro = 1

\* C20: weiToNumber returns null for every string that is not a non-negative
\* integer, negative integers included, and never returns a negative number.
C20_NullUnlessNonNegative ==
    conv.done =>
        /\ (conv.wei.kind # "int" \/ conv.wei.neg) => conv.out.null
        /\ ~conv.out.null => conv.out.micro >= 0

(***************************************************************************)
(* The tracker in the browser.                                             *)
(***************************************************************************)
\* The handler that runs in this step is the start/stop button of tab t, or
\* the refresh of tab t.
clicked(t) == event'.kind = "click" /\ event'.tab = t
refreshed(t) == event'.kind = "refresh" /\ event'.tab = t
Trackers == {t \in Tabs : tabs[t].view = "staking"}
balanceIn(results, a) == lastRowOf(results, a).tfuelBalance

\* C21: the start button pressed on an idle tracker that holds a snapshot makes
\* it Running with startedAt = now, with baselines[address] = that address's
\* balance in the snapshot (a number or null) for exactly the addresses of the
\* snapshot, and with series[address] = { today: 0 } for each of them.
C21_StartStep ==
    \A t \in Trackers :
        (clicked(t) /\ ~tabs[t].tracking.running /\ tabs[t].data.kind = "snapshot")
        => LET results == tabs[t].data.results
               tr == tabs'[t].tracking
           IN  /\ tr.running
               /\ tr.startedAt = wall
               /\ DOMAIN tr.baselines = addressesOf(results)
               /\ \A i \in DOMAIN results :
                     tr.baselines[results[i].address] = results[i].tfuelBalance
               /\ DOMAIN tr.series = addressesOf(results)
               /\ \A a \in addressesOf(results) :
                     /\ DOMAIN tr.series[a] = {dayKeyLocal(wall)}
                     /\ tr.series[a][dayKeyLocal(wall)] = 0
C21_StartSeedsState == [][C21_StartStep]_vars
\* Tracking was started, on a later day than the first, from a snapshot in
\* which one address has a balance and the other has none.
C21_Witness ==
    \E t \in Trackers :
        /\ event = [tab |-> t, kind |-> "click"]
        /\ tabs[t].tracking.running
        /\ tabs[t].tracking.startedAt = wall /\ wall > msPerDay
        /\ tabs[t].tracking.baselines[DefaultAddresses[1]] = 2
        /\ tabs[t].tracking.baselines[DefaultAddresses[2]] = Null

\* Every value of every day series of a tracking state, and the earned values
\* a tracker displays for a snapshot.
seriesValues(series) ==
    UNION {{series[a][d] : d \in DOMAIN series[a]} : a \in DOMAIN series}
C22_NonNegative ==
    /\ \A v \in seriesValues(storage.tracking.series) : v >= 0
    /\ \A t \in Tabs :
          /\ \A v \in seriesValues(tabs[t].tracking.series) : v >= 0
          /\ totalEarnedAll(tabs[t].data.results, tabs[t].tracking) >= 0
\* C22: a refresh of a Running tracker that brings a snapshot writes
\* series[address][today] = current - baseline when the balance is at or above
\* the baseline and 0 when it is below, for the addresses with a baseline and
\* a balance, and leaves every other entry as it was; every stored series
\* value and every displayed earned value is >= 0.
C22_RefreshStep ==
    \A t \in Trackers :
        (refreshed(t) /\ tabs[t].tracking.running /\ tabs'[t].view = "staking")
        => LET old == tabs[t].tracking
               new == tabs'[t].tracking
               results == tabs'[t].data.results
               k == dayKeyLocal(wall)
               both(a) == /\ a \in addressesOf(results) /\ a \in DOMAIN old.baselines
                          /\ old.baselines[a] # Null /\ balanceIn(results, a) # Null
           IN  /\ new.running /\ new.startedAt = old.startedAt
               /\ new.baselines = old.baselines
               /\ DOMAIN new.series = DOMAIN old.series
               /\ \A a \in DOMAIN old.series :
                     IF both(a)
                     THEN /\ DOMAIN new.series[a] = DOMAIN old.series[a] \cup {k}
                          /\ new.series[a][k] =
                                (IF balanceIn(results, a) < old.baselines[a] THEN 0
                                 ELSE balanceIn(results, a) - old.baselines[a])
                          /\ \A d \in DOMAIN old.series[a] \ {k} :
                                new.series[a][d] = old.series[a][d]
                     ELSE new.series[a] = old.series[a]
               /\ storage'.tracking = stringify(new)
C22_RefreshWritesFlooredEarned == [][C22_RefreshStep /\ C22_NonNegative']_vars
\* A refresh found the first address's balance below its baseline and wrote 0
\* over the earnings of the same day.
C22_Witness ==
    \E t \in Trackers :
        /\ event = [tab |-> t, kind |-> "refresh"]
        /\ tabs[t].tracking.running
        /\ tabs[t].tracking.baselines[DefaultAddresses[1]] = 2
        /\ balanceIn(tabs[t].data.results, DefaultAddresses[1]) = 1
        /\ tabs[t].tracking.series[DefaultAddresses[1]][dayKeyLocal(wall)] = 0
        /\ storage.tracking.series[DefaultAddresses[1]][dayKeyLocal(wall)] = 0

\* Nothing of a session that ended is in a tracker or in the storage: an idle
\* tracker leaves no item, and a running one holds no day older than its start.
C23_NothingLeft ==
    \A t \in Trackers :
        IF tabs[t].tracking.running
        THEN /\ storage.tracking = stringify(tabs[t].tracking)
             /\ \A d \in allDays(tabs[t].tracking.series) :
                   d >= dayKeyLocal(tabs[t].tracking.startedAt)
        ELSE storage.tracking = NoItem
\* C23: the stop button of a Running tracker sets the state in memory to null
\* and removes the item "thetaRewardsTracking.v1"; afterwards no baseline,
\* startedAt or series entry of the session is in memory or in the storage,
\* and a tracker started again holds no day older than its own start.
C23_StopStep ==
    \A t \in Trackers :
        (clicked(t) /\ tabs[t].tracking.running)
        => /\ tabs'[t].tracking = NoTracking
           /\ storage'.tracking = NoItem
C23_StopDiscardsState == [][C23_StopStep /\ C23_NothingLeft']_vars
\* Tracking was stopped on a later day than it was started.
C23_Witness ==
    \E t \in Trackers :
        /\ event = [tab |-> t, kind |-> "click"]
        /\ ~tabs[t].tracking.running
        /\ storage.tracking = NoItem
        /\ storage.lifetime.present /\ storage.lifetime.text < wall
        /\ tabs[t].data.kind = "snapshot"

\* C24: the item "tfuelLifetimeStartedAt.v1", once present, keeps its value in
\* every step (start, stop, refresh, a day passing); it is written only by the
\* start button of an idle tracker that finds it absent, with the time of the
\* click.
C24_LifetimeStep ==
    /\ storage.lifetime.present => storage'.lifetime = storage.lifetime
    /\ storage'.lifetime # storage.lifetime
          => /\ ~storage.lifetime.present
             /\ storage'.lifetime = [present |-> TRUE, text |-> wall]
             /\ \E t \in Trackers : clicked(t) /\ ~tabs[t].tracking.running
C24_LifetimeNeverReset == [][C24_LifetimeStep]_vars
\* Tracking was started a second time, on a later day than the lifetime item
\* was written.
C24_Witness ==
    \E t \in Trackers :
        /\ event = [tab |-> t, kind |-> "click"]
        /\ tabs[t].tracking.running /\ tabs[t].tracking.startedAt = wall
        /\ storage.lifetime.present /\ storage.lifetime.text < wall

\* The keys of a series that the window shows, and the key before k in the
\* series.
shownKeys(s) == {k \in DOMAIN s : Cardinality({j \in DOMAIN s : j > k}) < DisplayDays}
earlierKeys(s, k) == {j \in DOMAIN s : j < k}
predecessor(s, k) == CHOOSE j \in earlierKeys(s, k) : \A i \in earlierKeys(s, k) : i <= j
floored(x) == IF x < 0 THEN 0 ELSE x

\* C25: dailyDeltas returns, in the order of the days, one entry for each of
\* the latest 30 day keys of the address's series; the delta of a key is
\* max(0, series[key] - series[the key before it in the series]), also for the
\* first key shown, and max(0, series[key]) for the first key of the series.
C25_DeltasAlongOwnKeys ==
    calc.done =>
        LET s == calc.series
            out == calc.out
        IN  /\ Len(out) = Cardinality(shownKeys(s))
            /\ \A i \in DOMAIN out :
                  /\ out[i].day \in shownKeys(s)
                  /\ i < Len(out) => out[i].day < out[i + 1].day
                  /\ out[i].delta =
                        (IF earlierKeys(s, out[i].day) = {} THEN floored(s[out[i].day])
                         ELSE floored(s[out[i].day] - s[predecessor(s, out[i].day)]))
\* A series of more days than the window shows, whose first shown day has a
\* delta smaller than its value.
C25_Witness ==
    /\ calc.done
    /\ Cardinality(DOMAIN calc.series) > DisplayDays
    /\ Len(calc.out) = DisplayDays
    /\ calc.out[1].delta > 0
    /\ calc.out[1].delta < calc.series[calc.out[1].day]

\* The delta dailyDeltas gives an address for day k: 0 when it has none.
deltaOn(s, k) ==
    LET out == dailyDeltas(s)
        at == {j \in DOMAIN out : out[j].day = k}
    IN  IF at = {} THEN 0 ELSE out[CHOOSE j \in at : TRUE].delta
RECURSIVE sumOfDeltas(_, _, _)
sumOfDeltas(series, todo, k) ==
    IF todo = {} THEN 0
    ELSE LET a == CHOOSE x \in todo : TRUE
         IN  deltaOn(series[a], k) + sumOfDeltas(series, todo \ {a}, k)

\* C26: in every tracking state a Dashboard holds, the value of each day of
\* the combined chart is the sum, over the addresses, of the delta that
\* dailyDeltas gives the address for that day.
C26_CombinedIsSumOfDeltas ==
    \A t \in Tabs :
        (tabs[t].view = "prices" /\ tabs[t].tracking.running)
        => LET series == tabs[t].tracking.series
               c == chart(series)
           IN  \A i \in DOMAIN c.keys :
                  c.values[i] = sumOfDeltas(series, DOMAIN series, c.keys[i])

\* C27: whenever a tab changes the item "thetaRewardsTracking.v1", the
\* tracking state in memory of every other tab that shows the Dashboard or
\* the StakingTracker equals the stored state after the step; and the refresh
\* of a tracker leaves the item absent when it was absent.
C27_TabsStep ==
    /\ storage'.tracking # storage.tracking
          => \A u \in Tabs :
                (u # event'.tab /\ tabs'[u].view \in {"prices", "staking"})
                => tabs'[u].tracking = parseTracking(storage'.tracking)
    /\ \A t \in Trackers :
          (refreshed(t) /\ storage.tracking = NoItem) => storage'.tracking = NoItem
C27_OtherTabsReload == [][C27_TabsStep]_vars

\* C29: the start button pressed on an idle tracker that holds no snapshot
\* (no refresh has answered yet, or the last one answered with an error
\* response) leaves the tracker idle and the storage as it was.
C29_StartStep ==
    \A t \in Trackers :
        (clicked(t) /\ ~tabs[t].tracking.running /\ tabs[t].data.kind # "snapshot")
        => /\ tabs'[t].tracking = NoTracking
           /\ storage' = storage
C29_StartWithoutSnapshot == [][C29_StartStep]_vars

\* The stake records that count: withdrawn is the boolean false and the amount
\* is a number; and the sum of their converted amounts.
countedStake(r) == r.withdrawn = "false" /\ r.amount \notin {Null, Unparseable}
RECURSIVE sumConverted(_)
sumConverted(records) ==
    IF records = <<>> THEN 0
    ELSE Head(records).amount \div 2 + sumConverted(Tail(records))

\* C30: once the stake lookup of a /rewards callback has answered, its
\* stakedTheta (which the result carries, 0 as null) is the sum of the converted amounts of the stake records with
\* withdrawn === false and a parseable amount, whatever the other records are,
\* and it stays that sum while the callback walks the transaction feed.
C30_StakedThetaIsSum ==
    \A x \in Walks :
        (M(x) = "rewards" /\ (W(x).page >= 2 \/ W(x).pc = "done"))
        => W(x).stakedTheta = sumConverted(SelectSeq(W(x).stake, countedStake))
\* A callback that has walked to the second page of the feed and counted
\* rewards, after a stake lookup with a record without the withdrawn field and
\* one with withdrawn false.
C30_Witness ==
    \E x \in Walks :
        /\ M(x) = "rewards" /\ W(x).pc = "done" /\ W(x).page >= 3
        /\ W(x).rewards30d > 0
        /\ W(x).stake = <<stake("missing", 2), stake("false", 2)>>
        /\ W(x).stakedTheta = 1

\* A request that missed the cache finishes, r being its slot.
finishes(r) == req[r].pc = "walking" /\ req'[r].pc = "idle" /\ last'.status = 200
\* The entries under the key of request q that are still fresh: a request that
\* overlapped q, and missed the cache as q did, wrote them.
freshFor(q) == {e \in entriesFor(q) : isFresh(clock, e.ts, ttlOf(q.mode))}
\* The entries under the key of request q after the step.
entriesAfter(q) == {e \in cache'[q.mode] : e.key = cacheKey(q.mode, q.raw, q.sinceRaw)}
lastWriterWins(q) ==
    entriesAfter(q) = {[key |-> cacheKey(q.mode, q.raw, q.sinceRaw), ts |-> clock,
                        payload |-> last'.payload]}
\* Two result lists that agree in everything but the sums over the windows.
withoutWindows(rs) ==
    [i \in DOMAIN rs |-> [rs[i] EXCEPT !.rewards7d = Null, !.rewards30d = Null]]

\* C28 as stated: when a request that missed the cache finishes and finds,
\* under its key, an entry that is still fresh, the cache afterwards holds for
\* the key the payload of the request that finishes now, and that payload has
\* the same per-address results as the entry it replaces.
C28_RaceStep ==
    \A r \in Slots :
        (finishes(r) /\ freshFor(req[r]) # {})
        => /\ lastWriterWins(req[r])
           /\ \A e \in freshFor(req[r]) : e.payload.results = last'.payload.results
C28_AmendedStep ==
    \A r \in Slots :
        (finishes(r) /\ freshFor(req[r]) # {})
        => /\ lastWriterWins(req[r])
           /\ \A e \in freshFor(req[r]) :
                  IF req[r].mode = "earned"
                  THEN e.payload.results = last'.payload.results
                  ELSE withoutWindows(e.payload.results)
                           = withoutWindows(last'.payload.results)
windowTotal(mode, res) == IF mode = "rewards" THEN res.rewards30d ELSE res.earned

\* C31: in the result of every finished walk, and in every result a 200
\* response carries, lastRewardAt is null exactly when the window total
\* (rewards30d on /rewards, earned on /earned) is null; when it is not null it
\* is the newest timestamp among the records that were counted and is at or
\* after the lower bound of the window (nowSec - 30 days, or since).
C31_LastRewardAtWithTotal ==
    /\ \A x \in Walks :
           W(x).pc = "done"
           => LET res == resultOf(M(x), W(x))
              IN  /\ (res.lastRewardAt # Null) <=> (windowTotal(M(x), res) # Null)
                  /\ res.lastRewardAt # Null
                     => /\ res.lastRewardAt = P(x).refLast
                        /\ res.lastRewardAt >= lowerBound(req[x[1]])
    /\ last.status = 200
       => \A i \in DOMAIN last.payload.results :
              (last.payload.results[i].lastRewardAt # Null)
              <=> (windowTotal(last.mode, last.payload.results[i]) # Null)
\* A finished /rewards walk that skipped a record and counted one on the
\* 30 day bound only.
C31_Witness ==
    /\ \E x \in Walks :
           /\ M(x) = "rewards" /\ W(x).pc = "done" /\ P(x).malformed
           /\ W(x).lastRewardAt = T30 /\ W(x).rewards30d > 0 /\ W(x).rewards7d = 0

\* The keys under which the cache of a route holds an entry.
keysOf(c) == {e.key : e \in c}
\* A response is given in the step.
answered == last' # last

\* C32: the cache changes only in the step in which a request whose every
\* callback returned builds its payload, and then the entry of that request's
\* key, and nothing else, is set to that payload with the time of the step;
\* a step that answers 400, answers for a failed request or answers from the
\* cache leaves the cache as it is.  An answer from the cache is the payload
\* of a fresh entry as stored, fetchedAt included.  No key ever leaves the
\* cache.
C32_CacheStep ==
    /\ cache' # cache => \E r \in Slots : finishes(r)
    /\ \A r \in Slots :
           finishes(r)
           => LET q == req[r]
                  key == cacheKey(q.mode, q.raw, q.sinceRaw)
              IN  /\ outcome(walk[r]) = "fulfilled"
                  /\ cache' = [cache EXCEPT ![q.mode] =
                         {e \in @ : e.key # key}
                         \cup {[key |-> key, ts |-> clock, payload |-> last'.payload]}]
                  /\ last'.payload.fetchedAt = clock
    /\ (answered /\ (last'.status # 200 \/ last'.cached)) => cache' = cache
    /\ (answered /\ last'.cached)
       => \E e \in cache'[last'.mode] :
              /\ e.key = cacheKey(last'.mode, last'.raw, last'.sinceRaw)
              /\ isFresh(clock, e.ts, ttlOf(last'.mode))
              /\ last'.payload = e.payload
              /\ e.payload.fetchedAt = e.ts
    /\ \A m \in Modes : keysOf(cache[m]) \subseteq keysOf(cache'[m])
C32_CacheChangesOnSuccess == [][C32_CacheStep]_vars
\* A request is answered from the cache 45 s after the entry was written: the
\* entry and the payload returned still carry the time of writing.
C32_Witness ==
    /\ clock = 45000
    /\ last.cached /\ last.status = 200 /\ last.payload.fetchedAt = 0
    /\ \E e \in cache[last.mode] :
           /\ e.key = cacheKey(last.mode, last.raw, last.sinceRaw)
           /\ e.ts = 0 /\ e.payload = last.payload

\* A request arrives in the step.
arrives == budget' < budget
\* Request q has the key of request q2.
sameKey(q, q2) ==
    q.mode = q2.mode
    /\ cacheKey(q.mode, q.raw, q.sinceRaw) = cacheKey(q2.mode, q2.raw, q2.sinceRaw)

\* C33: requests in flight are not shared.  A request that arrives is answered
\* from the cache only when the cache holds a fresh entry of its key; when
\* there is none, a request with a valid address list starts walks of its own
\* at page 1, another request of the same key being in flight or not, and a
\* request that finishes has requested and received every page of each of
\* its walks itself.
C33_OwnWalkStep ==
    /\ (arrives /\ answered /\ last'.cached)
       => \E e \in cache[last'.mode] :
              /\ e.key = cacheKey(last'.mode, last'.raw, last'.sinceRaw)
              /\ isFresh(clock, e.ts, ttlOf(last'.mode))
    /\ \A r \in Slots :
           (arrives /\ req'[r].pc = "walking" /\ req[r].pc = "idle")
           => /\ Len(walk'[r]) = Len(req'[r].addresses)
              /\ \A i \in DOMAIN walk'[r] :
                     /\ walk'[r][i].pc = "await" /\ walk'[r][i].page = 1
                     /\ probe'[r][i].requested = <<1>>
                     /\ probe'[r][i].answered = 0
    /\ \A r \in Slots :
           finishes(r)
           => \A i \in DOMAIN walk[r] :
                  /\ Len(probe[r][i].requested) >= 1
                  /\ probe[r][i].requested = UpTo(Len(probe[r][i].requested))
                  /\ probe[r][i].answered = Len(probe[r][i].requested)
C33_NoCoalescing == [][C33_OwnWalkStep]_vars
\* Two requests of the same key are in flight, each with a page of its own
\* answered.
C33_Witness ==
    /\ req[1].pc = "walking" /\ req[2].pc = "walking"
    /\ sameKey(req[1], req[2])
    /\ \A r \in Slots :
           /\ Len(walk[r]) = 1
           /\ probe[r][1].requested = <<1>> /\ probe[r][1].answered = 1

\* The sum of the deltas of a list of entries, the latest key of a series, and
\* a series that never falls from one of its keys to the next.
RECURSIVE sumDelta(_)
sumDelta(out) == IF out = <<>> THEN 0 ELSE Head(out).delta + sumDelta(Tail(out))
latestKey(s) == CHOOSE k \in DOMAIN s : \A j \in DOMAIN s : j <= k
nonDecreasing(s) == \A j, k \in DOMAIN s : j < k => s[j] <= s[k]

\* C34: for the series dailyDeltas was called on, the deltas of all its day
\* keys (the ones dailyDeltas returns, when the series has at most 30 keys)
\* sum to at least the value at the latest key, which is the earned amount
\* the last refresh wrote, and to exactly that value only when the series
\* never falls from one key to the next.
C34_DeltasSumAtLeastLatest ==
    calc.done =>
        LET s == calc.series
            all == allDeltas(s)
        IN  /\ calc.out = sliceLast(all, DisplayDays)
            /\ Len(all) <= DisplayDays => sumDelta(calc.out) = sumDelta(all)
            /\ sumDelta(all) >= s[latestKey(s)]
            /\ (sumDelta(all) = s[latestKey(s)]) <=> nonDecreasing(s)
\* A series of three days whose value dips and recovers: the deltas returned
\* sum to more than the latest value.
C34_Witness ==
    /\ calc.done
    /\ Cardinality(DOMAIN calc.series) = 3
    /\ \E d \in DOMAIN calc.series :
           /\ d < latestKey(calc.series)
           /\ calc.series[d] < calc.series[latestKey(calc.series)]
           /\ \E c \in DOMAIN calc.series : c < d /\ calc.series[c] > calc.series[d]
    /\ sumDelta(calc.out) > calc.series[latestKey(calc.series)]

\* The entry of address a and day d in a series, Null when there is none.
entryAt(series, a, d) ==
    IF a \in DOMAIN series /\ d \in DOMAIN series[a] THEN series[a][d] ELSE Null
entriesOf(series) == {<<a, d>> \in Addresses \X (0 .. MaxDays + 2) : entryAt(series, a, d) # Null}

\* A Running state in which every address that had no balance at the start
\* still has the series it was seeded with.
C35_SeedKept ==
    \A t \in Tabs :
        tabs[t].tracking.running
        => \A a \in DOMAIN tabs[t].tracking.baselines :
               tabs[t].tracking.baselines[a] = Null
               => tabs[t].tracking.series[a]
                      = [d \in {dayKeyLocal(tabs[t].tracking.startedAt)} |-> 0]
\* C35: a refresh of a Running tracker that brings a snapshot leaves startedAt
\* and the baselines as they are, and an entry series[a][d] that it adds or
\* changes is the one of today for an address a that has a baseline and has a
\* balance in the snapshot; an address without a baseline keeps the series it
\* was seeded with.  A refresh of an Idle tracker leaves it Idle and leaves
\* the stored item alone.
C35_FrameStep ==
    \A t \in Trackers :
        (refreshed(t) /\ tabs'[t].view = "staking")
        => LET old == tabs[t].tracking
               new == tabs'[t].tracking
               results == tabs'[t].data.results
           IN  IF old.running
               THEN /\ [new EXCEPT !.series = old.series] = old
                    /\ entriesOf(old.series) \subseteq entriesOf(new.series)
                    /\ \A x \in entriesOf(new.series) :
                           entryAt(new.series, x[1], x[2]) # entryAt(old.series, x[1], x[2])
                           => /\ x[2] = dayKeyLocal(wall)
                              /\ baselineAt(old.baselines, x[1]) # Null
                              /\ x[1] \in addressesOf(results)
                              /\ balanceIn(results, x[1]) # Null
               ELSE /\ new = NoTracking /\ old = NoTracking
                    /\ storage' = storage
C35_RefreshFrame == [][C35_FrameStep /\ C35_SeedKept']_vars
\* A refresh on a later day than the start added today's entry to the series
\* of the first address and left the second, which has no baseline, with its
\* seed.
C35_Witness ==
    \E t \in Trackers :
        /\ event = [tab |-> t, kind |-> "refresh"]
        /\ tabs[t].tracking.running
        /\ dayKeyLocal(tabs[t].tracking.startedAt) < dayKeyLocal(wall)
        /\ tabs[t].tracking.baselines[DefaultAddresses[2]] = Null
        /\ DOMAIN tabs[t].tracking.series[DefaultAddresses[2]]
               = {dayKeyLocal(tabs[t].tracking.startedAt)}
        /\ Cardinality(DOMAIN tabs[t].tracking.series[DefaultAddresses[1]]) = 2
        /\ tabs[t].tracking.series[DefaultAddresses[1]][dayKeyLocal(wall)] = 1

\* C36: a refresh of a Running tracker raises no exception, and one that
\* brought no snapshot (the response was an error) leaves the tracker Running
\* with the state it had and leaves the stored item as it was.
C36_ErrorStep ==
    \A t \in Trackers :
        (refreshed(t) /\ tabs[t].tracking.running)
        => /\ tabs'[t].view = "staking"
           /\ tabs'[t].data.kind # "snapshot"
              => /\ tabs'[t].tracking = tabs[t].tracking
                 /\ storage' = storage
C36_ErrorRefreshKeepsState == [][C36_ErrorStep]_vars

\* Earned (USD) as the tracker of tab t renders it after the step.
earnedUsdAfter(t) ==
    totalEarnedUsd(alert'.usd[t], totalEarnedAll(tabs'[t].data.results, tabs'[t].tracking))
\* The alert of tab t sees, after the step, an amount below a valid threshold.
seesBelow(t) ==
    /\ alert'.of[t].enabled
    /\ alertThresholdUsdNum(alert'.of[t].threshold) # Null
    /\ earnedUsdAfter(t) # Null
    /\ earnedUsdAfter(t) < alertThresholdUsdNum(alert'.of[t].threshold)

\* C37: the alert is raised (banner set, armed := false) only by a handler of
\* a mounted tracker that leaves the alert enabled, the threshold a number
\* > 0, tracking Running and earned USD at or above the threshold, and only
\* when the alert was armed before; the banner is set by nothing else.  Armed
\* goes from false to true only in a step after which earned USD is seen
\* below the threshold, also when the state is read back from localStorage as
\* the tracker is mounted, and from true to false only as the alert is raised:
\* so two raisings have a sight of earned USD below the threshold between them.
C37_AlertStep ==
    \A t \in Tabs :
        LET a == alert.of[t]
            b == alert'.of[t]
            mounted == tabs[t].view = "staking"
            stays == mounted /\ tabs'[t].view = "staking"
            mounts == ~mounted /\ tabs'[t].view = "staking"
        IN  /\ b.fired
               => /\ stays /\ a.armed /\ ~b.armed /\ b.banner
                  /\ b.enabled /\ tabs'[t].tracking.running
                  /\ alertThresholdUsdNum(b.threshold) # Null
                  /\ earnedUsdAfter(t) # Null
                  /\ earnedUsdAfter(t) >= alertThresholdUsdNum(b.threshold)
            /\ (b.banner /\ ~a.banner) => b.fired
            /\ (stays /\ ~a.armed /\ b.armed) => seesBelow(t)
            /\ (stays /\ a.armed /\ ~b.armed) => b.fired
            /\ (mounts /\ alert.item.present)
               => /\ b.enabled = alert.item.enabled
                  /\ b.armed # alert.item.armed => (b.armed /\ seesBelow(t))
C37_AlertOncePerCrossing == [][C37_AlertStep]_vars
\* The alert was raised by earnings of exactly the threshold, and the stored
\* item says that it is no longer armed.
C37_Witness ==
    \E t \in Trackers :
        /\ alert.of[t].fired /\ alert.of[t].banner /\ ~alert.of[t].armed
        /\ alert.of[t].threshold = 2 /\ alert.usd[t] = 1
        /\ totalEarnedAll(tabs[t].data.results, tabs[t].tracking) = 2
        /\ alert.item = persistAlert(alert.of[t])

\* C38: on /earned, pagesFetched of a walk is the number of pages the walk
\* has requested from the explorer, a last page that came back empty
\* included; it is at least 1 and at most 40, and the result of the walk and
\* every result of a 200 response carry it.
C38_PagesFetchedCounts ==
    /\ \A x \in Walks :
           M(x) = "earned"
           => /\ W(x).pagesFetched = Len(P(x).requested)
              /\ W(x).pagesFetched >= 1 /\ W(x).pagesFetched <= EarnedMaxPages
              /\ W(x).pc = "done"
                 => /\ resultOf("earned", W(x)).pagesFetched = P(x).answered
                    /\ P(x).requested = UpTo(P(x).answered)
    /\ (last.status = 200 /\ last.mode = "earned")
       => \A i \in DOMAIN last.payload.results :
              /\ last.payload.results[i].pagesFetched >= 1
              /\ last.payload.results[i].pagesFetched <= EarnedMaxPages
\* A walk over a feed of two pages that ended on the empty third page.
C38_Witness ==
    \E x \in Walks :
        /\ M(x) = "earned" /\ W(x).pc = "done"
        /\ feedPages[W(x).address] = 2
        /\ P(x).empty /\ W(x).pagesFetched = 3

(***************************************************************************)
(* The price route.                                                        *)
(***************************************************************************)
answeredPrice == price.pc = "done"
noPrice == price.usdc = Null /\ price.usd = Null
\* The parts of the statement about the symbol, the fallback and the source.
priceRouting ==
    /\ answeredPrice /\ isEmptySymbol(price.symbol)
          => price.status = 400 /\ price.calls = <<>>
    /\ price.status = 400 => isEmptySymbol(price.symbol)
    /\ price.fallback => price.quoted = Null
    /\ (\E i \in 1 .. Len(price.calls) : price.calls[i] = "coingecko") => price.fallback
    /\ answeredPrice /\ price.status \in {200, BadGateway} =>
          /\ price.source \in {"coingecko", "simpleswap"}
          /\ price.source = "coingecko" <=> price.fallback /\ ~noPrice
          /\ ~price.fallback => price.usdc = price.quoted /\ price.usd = price.quoted
\* The part about the status of the response.
priceStatuses ==
    answeredPrice /\ price.status # 400 =>
        /\ price.status \in {200, BadGateway}
        /\ price.status = BadGateway <=> noPrice

\* C39: a missing symbol is answered 400 without a call upstream; the spot
\* fallback is consulted only when the swap estimate gave no price; every
\* other response is 502 when usdc and usd are both null and 200 otherwise;
\* source is "coingecko" exactly when a returned price came from the
\* fallback, "simpleswap" otherwise.
C39_PriceEndpoint == priceRouting /\ priceStatuses

\* What the route does: the statement of C39 for the responses the handler
\* returns; a fetch that rejects, or a body that is not JSON, leaves the
\* handler as an exception, and only then is the answer a 500.
C39_ReturnedResponses ==
    /\ priceRouting
    /\ ~price.threw => priceStatuses
    /\ price.threw <=> price.status = UnhandledStatus
C39_Witness ==
    /\ answeredPrice /\ price.status = 200 /\ price.source = "coingecko"
    /\ price.calls = <<"simpleswap", "coingecko">>
    /\ price.usd = Null /\ price.usdc # Null
C39_Thrown == answeredPrice /\ price.threw /\ price.calls = <<"simpleswap">>


(***************************************************************************)
(* The history route.                                                      *)
(***************************************************************************)
unsupportedSymbol == history.symbol.text \notin {"tfuel", "theta"}
upstreamFailed == history.answer \in {"http", "throws", "badjson"}

\* C40: whatever the days parameter is (absent, empty, not a number, zero,
\* negative, fractional, huge), the days used is an integer from 1 to 90, and
\* is 30 when the parameter is absent or not finite; an unsupported symbol is
\* answered 400 without a call upstream; a failed call upstream is answered
\* 502 with the error "history_fetch_failed".
C40_HistoryEndpoint ==
    history.pc # "idle" =>
        /\ history.days \in 1 .. 90
        /\ history.raw.kind \in {"absent", "nan", "inf"} => history.days = 30
        /\ unsupportedSymbol =>
              history.pc = "done" /\ history.status = 400 /\ history.calls = 0
        /\ history.status = 400 => history.calls = 0
        /\ upstreamFailed =>
              /\ history.pc = "done" /\ history.status = 502
              /\ history.error = "history_fetch_failed"
C40_Witness ==
    /\ history.pc = "done" /\ history.answer = "throws" /\ history.status = 502
    /\ history.raw.kind = "num" /\ history.raw.tenths < 0 /\ history.days = 1
====
